---------------------------- MODULE Spec2Model ----------------------------
(***************************************************************************)
(* Usage aggregation and cost estimation of cloudflare-observer:           *)
(* src/lib/cloudflare/{types,metrics,graphql,api}.ts.                      *)
(*                                                                         *)
(* Representation of JavaScript numbers.  TLC has 32-bit integers only, so *)
(* every quantity is carried exactly in a fixed unit:                      *)
(*   counters (requests, rows, neurons, dimensions, ms)  CounterUnit each  *)
(*   dollar amounts                                      1/DollarScale $   *)
(*   gigabytes                                           1/GBScale GB      *)
(*   byte counts                                         MiB (2^20 bytes)  *)
(* Inputs are drawn on these grids, on which the arithmetic of the code is *)
(* exact.  A percentage is an exact mixed fraction (see Ratio).  NaN and   *)
(* undefined are distinguished values of the number domain, with the       *)
(* arithmetic of JavaScript (NaN is absorbing, comparisons with it fail).  *)
(***************************************************************************)
EXTENDS Integers, Sequences, FiniteSets, TLC

VARIABLES
  call,       \* last direct call of a metrics.ts function or of one aggregator
  env,        \* cloudflare:workers env: CLOUDFLARE_ACCOUNT_ID, CLOUDFLARE_API_TOKEN
  now,        \* the clock read by new Date(), with the host's UTC offset
  pc,         \* position of the $fetchAllUsage handler
  query,      \* per upstream query: "idle", "refused", "inflight", "arrived" or "closed"
  issued,     \* per upstream query: number of fetch() calls made for it
  got,        \* per upstream query: the GraphQLResponse fetchGraphQL returned
  promise,    \* per product: state of $fetchXUsage().catch(captureError(..))
  slot,       \* per product: value the promise settled with (ProductUsage or null)
  errors,     \* the errors array of the running $fetchAllUsage invocation
  outcome     \* what $fetchAllUsage gave its caller: a summary or a raised error

vars == <<call, env, now, pc, query, issued, got, promise, slot, errors, outcome>>

-----------------------------------------------------------------------------
(* Units of the number representation.                                     *)

\* one counter unit is CounterUnit requests (rows, neurons, ...)
CounterUnit == 100
\* one dollar is DollarScale cost units
DollarScale == 10000000
\* one gigabyte is GBScale storage units
GBScale == 16
\* bytes are counted in MiB; 1024^3 bytes are MiBPerGB of them
MiBPerGB == 1024

-----------------------------------------------------------------------------
(* JavaScript values.                                                      *)

\* the number NaN (undefined added to a number, arithmetic on NaN)
NaN == -1000000000
\* the value undefined where a number is expected (a missing property)
Undefined == -1000000001
\* marks the evaluation of a property chain that raised a TypeError
TypeErr == -1000000002

IsNumber(x) == x \notin {NaN, Undefined, TypeErr}

\* a + b
Add(a, b) == IF IsNumber(a) /\ IsNumber(b) THEN a + b ELSE NaN
\* a - b
Sub(a, b) == IF IsNumber(a) /\ IsNumber(b) THEN a - b ELSE NaN
\* Math.max(a, b)
MathMax(a, b) == IF IsNumber(a) /\ IsNumber(b) THEN (IF a >= b THEN a ELSE b) ELSE NaN
\* (x / d) * r, exactly: x*r/d without forming the product x*r
MulDiv(x, r, d) == IF IsNumber(x) THEN x * (r \div d) + (x * (r % d)) \div d ELSE NaN
\* a ?? b
Coalesce(a, b) == IF a = Undefined THEN b ELSE a

\* a completed evaluation: a returned value or a thrown Error with its message
Return(v) == [threw |-> FALSE, value |-> v]
Throw(m) == [threw |-> TRUE, message |-> m]

\* null, as the value of a product slot
Null == [null |-> TRUE]
IsNull(x) == "null" \in DOMAIN x

RECURSIVE GCD(_, _)
GCD(a, b) == IF b = 0 THEN a ELSE GCD(b, a % b)

\* the exact value n/d (d > 0) as whole + rem/den in lowest terms
Ratio(n, d) ==
  LET w == n \div d
      r == n % d
      g == GCD(d, r)
  IN [whole |-> w, rem |-> r \div g, den |-> d \div g]

\* the percentage when the current value is NaN
RatioNaN == [whole |-> NaN, rem |-> 0, den |-> 1]

-----------------------------------------------------------------------------
(* types.ts: pricing tables.                                               *)

WORKERS_PAID_LIMITS ==
  [requestsPerMonth |-> 10000000 \div CounterUnit,
   cpuMsPerMonth |-> 30000000 \div CounterUnit,
   requestOveragePer1M |-> (3 * DollarScale) \div 10,
   cpuOveragePer1M |-> (2 * DollarScale) \div 100,
   baseCost |-> 5 * DollarScale]

R2_LIMITS ==
  [storageGB |-> 10 * GBScale,
   classAOperations |-> 1000000 \div CounterUnit,
   classBOperations |-> 10000000 \div CounterUnit,
   storagePerGB |-> (15 * DollarScale) \div 1000,
   classAOveragePer1M |-> (45 * DollarScale) \div 10,
   classBOveragePer1M |-> (36 * DollarScale) \div 100]

KV_PAID_LIMITS ==
  [storageGB |-> 1 * GBScale,
   readsPerMonth |-> 10000000 \div CounterUnit,
   writesPerMonth |-> 1000000 \div CounterUnit,
   deletesPerMonth |-> 1000000 \div CounterUnit,
   listsPerMonth |-> 1000000 \div CounterUnit,
   storagePerGB |-> (5 * DollarScale) \div 10,
   readOveragePer1M |-> (5 * DollarScale) \div 10,
   writeOveragePer1M |-> 5 * DollarScale,
   deleteOveragePer1M |-> 5 * DollarScale,
   listOveragePer1M |-> 5 * DollarScale]

D1_LIMITS ==
  [rowsReadPerMonth |-> 250000000,   \* 25_000_000_000 / CounterUnit
   rowsWrittenPerMonth |-> 50000000 \div CounterUnit,
   storageGB |-> 5 * GBScale,
   rowsReadOveragePer1M |-> (1 * DollarScale) \div 1000,
   rowsWrittenOveragePer1M |-> 1 * DollarScale,
   storageOveragePerGB |-> (75 * DollarScale) \div 100]

IMAGES_LIMITS ==
  [transformationsPerMonth |-> 0,
   storedImages |-> 0,
   deliveredImages |-> 0,
   transformationsPer1K |-> (5 * DollarScale) \div 10,
   storedPer100K |-> 1 * DollarScale,
   deliveredPer100K |-> 1 * DollarScale]

WORKERS_AI_LIMITS ==
  [neuronsPerDay |-> 10000 \div CounterUnit,
   neuronOveragePer1K |-> (11 * DollarScale) \div 1000]

VECTORIZE_LIMITS ==
  [queriedDimensionsPerMonth |-> 30000000 \div CounterUnit,
   storedDimensionsPerMonth |-> 5000000 \div CounterUnit,
   queriedOveragePer1M |-> (1 * DollarScale) \div 100,
   storedOveragePer1M |-> (5 * DollarScale) \div 100]

-----------------------------------------------------------------------------
(* metrics.ts (the second half of types.ts in this checkout).              *)

\* the literals 1_000_000, 100_000 and 1000, in counter units
Per1M == 1000000 \div CounterUnit
Per100K == 100000 \div CounterUnit
Per1K == 1000 \div CounterUnit

\* calculateOverage that bills the whole usage, not the part over the limit
calculateOverageOfAllUsage(current, limit, costPer1M) ==
  MulDiv(MathMax(0, current), costPer1M, Per1M)

\* calculateOverage without Math.max(0, ...)
calculateOverageUnclamped(current, limit, costPer1M) ==
  MulDiv(Sub(current, limit), costPer1M, Per1M)

calculateOverage(current, limit, costPer1M) ==
  LET overage == MathMax(0, Sub(current, limit))
  IN MulDiv(overage, costPer1M, Per1M)

\* calculateStorageOverage billing the whole storage, not the part over the limit
calculateStorageOverageFromZero(currentGB, limitGB, costPerGB) ==
  MulDiv(MathMax(0, currentGB), costPerGB, GBScale)

calculateStorageOverage(currentGB, limitGB, costPerGB) ==
  LET overage == MathMax(0, Sub(currentGB, limitGB))
  IN MulDiv(overage, costPerGB, GBScale)

calculatePer100KCost(current, costPer100K) ==
  MulDiv(current, costPer100K, Per100K)

calculatePer1KCost(current, limit, costPer1K) ==
  LET overage == MathMax(0, Sub(current, limit))
  IN MulDiv(overage, costPer1K, Per1K)

\* the percentage without the factor 100
PercentageAsFraction(current, limit) ==
  IF IsNumber(limit) /\ limit > 0
  THEN (IF IsNumber(current) THEN Ratio(current, limit) ELSE RatioNaN)
  ELSE Ratio(0, 1)

\* limit > 0 ? (current / limit) * 100 : 0
Percentage(current, limit) ==
  IF IsNumber(limit) /\ limit > 0
  THEN (IF IsNumber(current) THEN Ratio(current * 100, limit) ELSE RatioNaN)
  ELSE Ratio(0, 1)

buildMetric(input, overageCost) ==
  [name |-> input.name,
   current |-> input.current,
   limit |-> input.limit,
   unit |-> input.unit,
   percentage |-> Percentage(input.current, input.limit),
   overageCost |-> overageCost,
   rate |-> input.rate]

\* buildProductUsage whose reduce starts at the second metric
buildProductUsageFromSecond(product, metrics) ==
  LET sum[i \in 0..Len(metrics)] ==
        IF i <= 1 THEN 0 ELSE Add(sum[i - 1], metrics[i].overageCost)
  IN [product |-> product, metrics |-> metrics, totalOverageCost |-> sum[Len(metrics)]]

buildProductUsage(product, metrics) ==
  LET sum[i \in 0..Len(metrics)] ==
        IF i = 0 THEN 0 ELSE Add(sum[i - 1], metrics[i].overageCost)
  IN [product |-> product, metrics |-> metrics, totalOverageCost |-> sum[Len(metrics)]]

\* formatters.ts: bytes / 1024^3
bytesToGB(bytes) == IF IsNumber(bytes) THEN (bytes * GBScale) \div MiBPerGB ELSE NaN

-----------------------------------------------------------------------------
(* The clock.  now is the instant read by new Date(): its UTC fields and   *)
(* the offset tz (whole hours, local = UTC + tz) of the host's time zone.  *)

IsLeap(y) == (y % 4 = 0 /\ y % 100 # 0) \/ y % 400 = 0

\* days of month m (0 = January) of year y
DaysIn(y, m) ==
  IF m = 1 THEN (IF IsLeap(y) THEN 29 ELSE 28)
  ELSE IF m \in {3, 5, 8, 10} THEN 30 ELSE 31

\* the calendar date (y, m, d) moved by delta days, |delta| <= 1
ShiftDay(y, m, d, delta) ==
  IF delta = 0 THEN [y |-> y, m |-> m, d |-> d]
  ELSE IF delta > 0
  THEN (IF d < DaysIn(y, m) THEN [y |-> y, m |-> m, d |-> d + 1]
        ELSE IF m < 11 THEN [y |-> y, m |-> m + 1, d |-> 1]
        ELSE [y |-> y + 1, m |-> 0, d |-> 1])
  ELSE (IF d > 1 THEN [y |-> y, m |-> m, d |-> d - 1]
        ELSE IF m > 0 THEN [y |-> y, m |-> m - 1, d |-> DaysIn(y, m - 1)]
        ELSE [y |-> y - 1, m |-> 11, d |-> 31])

\* the fields of an instant given in one zone, read in the zone shift hours ahead
ShiftHours(t, shift) ==
  LET h == t.h + shift
      delta == IF h >= 24 THEN 1 ELSE IF h < 0 THEN -1 ELSE 0
      date == ShiftDay(t.y, t.m, t.d, delta)
  IN [y |-> date.y, m |-> date.m, d |-> date.d, h |-> h - 24 * delta,
      mi |-> t.mi, s |-> t.s, ms |-> t.ms]

\* Date.prototype.getFullYear(), getMonth(): fields of the host's local time
Local(clock) == ShiftHours(clock.utc, clock.tz)
getFullYear(clock) == Local(clock).y
getMonth(clock) == Local(clock).m

\* new Date(year, monthIndex, day) with day 0 or 1: local midnight, as UTC fields
\* (monthIndex 12 is January of the next year, day 0 the last day of the month before)
LocalMidnight(clock, year, monthIndex, day) ==
  LET y == IF monthIndex > 11 THEN year + 1 ELSE year
      m == IF monthIndex > 11 THEN monthIndex - 12 ELSE monthIndex
      date == IF day = 0 THEN ShiftDay(y, m, 1, -1) ELSE [y |-> y, m |-> m, d |-> day]
  IN [local |-> [y |-> date.y, m |-> date.m, d |-> date.d, h |-> 0, mi |-> 0, s |-> 0, ms |-> 0],
      tz |-> clock.tz]

\* Date.prototype.getDate() of a Date built by LocalMidnight
getDate(date) == date.local.d

\* Date.prototype.toISOString(): the UTC fields of the instant
toISOString(date) == ShiftHours(date.local, 0 - date.tz)

-----------------------------------------------------------------------------
(* graphql.ts                                                              *)

\* !value for an env entry: undefined and "" are both falsy
Falsy(value) == value = ""

getAccountId(e) ==
  IF Falsy(e.CLOUDFLARE_ACCOUNT_ID)
  THEN Throw(<<"Missing CLOUDFLARE_ACCOUNT_ID">>)
  ELSE Return(e.CLOUDFLARE_ACCOUNT_ID)

\* getMonthStart(): day 1, 00:00:00.000 UTC of the current UTC month
getMonthStart(clock) ==
  [y |-> clock.utc.y, m |-> clock.utc.m, d |-> 1, h |-> 0, mi |-> 0, s |-> 0, ms |-> 0]

\* getMonthEnd(): last day, 23:59:59.999 UTC of the current UTC month
getMonthEnd(clock) ==
  [y |-> clock.utc.y, m |-> clock.utc.m, d |-> DaysIn(clock.utc.y, clock.utc.m),
   h |-> 23, mi |-> 59, s |-> 59, ms |-> 999]

\* fetchGraphQL up to its first await: the credentials check before fetch()
fetchGraphQLConfigured(e) ==
  IF Falsy(e.CLOUDFLARE_ACCOUNT_ID) \/ Falsy(e.CLOUDFLARE_API_TOKEN)
  THEN Throw(<<"Missing CLOUDFLARE_ACCOUNT_ID or CLOUDFLARE_API_TOKEN in .dev.vars">>)
  ELSE Return(TRUE)

\* what fetch() and res.text() can give: a rejection, or an HTTP response with
\* its ok flag, status and text; body is JSON.parse(text), or Unparsable
Rejected(m) == [kind |-> "reject", message |-> m]
Http(ok, status, text, body) ==
  [kind |-> "http", ok |-> ok, status |-> status, text |-> text, body |-> body]
Unparsable == [unparsable |-> TRUE]

\* data.errors?.length
HasErrors(body) == "errors" \in DOMAIN body /\ Len(body.errors) > 0

\* fetchGraphQL that returns a body with data whatever its errors list
fetchGraphQLDataFirst(res) ==
  IF res.kind = "reject" THEN Throw(res.message)
  ELSE IF ~res.ok THEN Throw(<<"Cloudflare API error: ", res.status, " - ", res.text>>)
  ELSE IF "unparsable" \in DOMAIN res.body THEN Throw(<<"Unexpected token in JSON">>)
  ELSE IF HasErrors(res.body) /\ "data" \notin DOMAIN res.body
  THEN Throw(<<"GraphQL error: ", res.body.errors[1].message>>)
  ELSE Return(res.body)

\* fetchGraphQL after fetch() settled with res
fetchGraphQL(res) ==
  IF res.kind = "reject" THEN Throw(res.message)
  ELSE IF ~res.ok THEN Throw(<<"Cloudflare API error: ", res.status, " - ", res.text>>)
  ELSE IF "unparsable" \in DOMAIN res.body THEN Throw(<<"Unexpected token in JSON">>)
  ELSE IF HasErrors(res.body) THEN Throw(<<"GraphQL error: ", res.body.errors[1].message>>)
  ELSE Return(res.body)

\* TypeError raised by reading property prop of undefined
TypeError(prop) == Throw(<<"Cannot read properties of undefined (reading '", prop, "')">>)

\* undefined, as the result of accounts[0] on an empty list
NoAccount == [undefined |-> TRUE]

\* data.data.viewer.accounts[0]
extractAccountData(data) ==
  IF "data" \notin DOMAIN data THEN TypeError("viewer")
  ELSE IF "viewer" \notin DOMAIN data.data THEN TypeError("accounts")
  ELSE IF "accounts" \notin DOMAIN data.data.viewer THEN TypeError("0")
  ELSE IF Len(data.data.viewer.accounts) = 0 THEN Return(NoAccount)
  ELSE Return(data.data.viewer.accounts[1])

\* extractAccountData(data)?.[field] ?? []
Groups(data, field) ==
  LET account == extractAccountData(data)
  IN IF account.threw THEN account
     ELSE IF "undefined" \in DOMAIN account.value \/ field \notin DOMAIN account.value
     THEN Return(<<>>)
     ELSE Return(account.value[field])

\* item[f1][f2] for a numeric property: the number, Undefined, or TypeErr
Prop(item, f1, f2) ==
  IF f1 \notin DOMAIN item THEN TypeErr
  ELSE IF f2 \notin DOMAIN item[f1] THEN Undefined
  ELSE item[f1][f2]

\* list[0][f1][f2] ?? 0, without the optional chaining on list[0]
FirstPropUnchained(list, f1, f2) ==
  IF Len(list) = 0 THEN TypeErr
  ELSE IF Prop(list[1], f1, f2) = TypeErr THEN TypeErr
  ELSE Coalesce(Prop(list[1], f1, f2), 0)

\* list[list.length - 1]?.[f1][f2] ?? 0: the last group, not the first
FirstPropOfLast(list, f1, f2) ==
  IF Len(list) = 0 THEN 0
  ELSE IF Prop(list[Len(list)], f1, f2) = TypeErr THEN TypeErr
  ELSE Coalesce(Prop(list[Len(list)], f1, f2), 0)

\* list[0]?.[f1][f2] ?? 0
FirstProp(list, f1, f2) ==
  IF Len(list) = 0 THEN 0
  ELSE IF Prop(list[1], f1, f2) = TypeErr THEN TypeErr
  ELSE Coalesce(Prop(list[1], f1, f2), 0)

\* metrics.ts: sumField.  A getter (i) => i.a.b is given as <<a, b>>; it yields a
\* number, Undefined (?? 0 applies) or TypeErr (the reduce throws)
sumField(items, getter) ==
  LET get(item) == Prop(item, getter[1], getter[2])
      sum[i \in 0..Len(items)] ==
        IF i = 0 THEN 0
        ELSE IF sum[i - 1] = TypeErr \/ get(items[i]) = TypeErr THEN TypeErr
        ELSE Add(sum[i - 1], Coalesce(get(items[i]), 0))
  IN sum[Len(items)]

-----------------------------------------------------------------------------
(* Strings that the code inspects are sequences of one-character strings.  *)

UpperToLower ==
  [c \in {"A","B","C","D","E","F","G","H","I","J","K","L","M",
          "N","O","P","Q","R","S","T","U","V","W","X","Y","Z"} |->
     CASE c = "A" -> "a" [] c = "B" -> "b" [] c = "C" -> "c" [] c = "D" -> "d"
       [] c = "E" -> "e" [] c = "F" -> "f" [] c = "G" -> "g" [] c = "H" -> "h"
       [] c = "I" -> "i" [] c = "J" -> "j" [] c = "K" -> "k" [] c = "L" -> "l"
       [] c = "M" -> "m" [] c = "N" -> "n" [] c = "O" -> "o" [] c = "P" -> "p"
       [] c = "Q" -> "q" [] c = "R" -> "r" [] c = "S" -> "s" [] c = "T" -> "t"
       [] c = "U" -> "u" [] c = "V" -> "v" [] c = "W" -> "w" [] c = "X" -> "x"
       [] c = "Y" -> "y" [] c = "Z" -> "z"]

\* String.prototype.toLowerCase()
toLowerCase(str) ==
  [i \in 1..Len(str) |-> IF str[i] \in DOMAIN UpperToLower THEN UpperToLower[str[i]] ELSE str[i]]

\* String.prototype.includes(sub)
includes(str, sub) ==
  \E i \in 1..(Len(str) - Len(sub) + 1) : SubSeq(str, i, i + Len(sub) - 1) = sub

-----------------------------------------------------------------------------
(* api.ts: the seven product aggregators, from the GraphQL responses that  *)
(* their fetchGraphQL calls returned to the value they return or throw.    *)

R2_CLASS_A_OPERATIONS ==
  {"ListBuckets", "PutBucket", "ListObjects", "PutObject", "CopyObject",
   "CompleteMultipartUpload", "CreateMultipartUpload", "ListMultipartUploads",
   "UploadPart", "UploadPartCopy", "ListParts", "PutBucketEncryption",
   "PutBucketCors", "PutBucketLifecycleConfiguration"}

R2_CLASS_B_OPERATIONS ==
  {"HeadBucket", "HeadObject", "GetObject", "UsageSummary", "GetBucketEncryption",
   "GetBucketLocation", "GetBucketCors", "GetBucketLifecycleConfiguration",
   "DeleteObject", "DeleteBucket", "AbortMultipartUpload"}

\* the loop of $fetchR2Usage with a plain else in place of the class B test
R2TotalsElseClassB(operations) ==
  LET step(acc, item) ==
        IF acc.threw THEN acc
        ELSE IF "dimensions" \notin DOMAIN item THEN TypeError("actionType")
        ELSE LET action == IF "actionType" \in DOMAIN item.dimensions
                           THEN item.dimensions.actionType ELSE "undefined"
                 requests == Prop(item, "sum", "requests")
             IN IF requests = TypeErr THEN TypeError("requests")
                ELSE IF action \in R2_CLASS_A_OPERATIONS
                THEN [acc EXCEPT !.classATotal = Add(@, requests)]
                ELSE [acc EXCEPT !.classBTotal = Add(@, requests)]
      run[i \in 0..Len(operations)] ==
        IF i = 0 THEN [threw |-> FALSE, classATotal |-> 0, classBTotal |-> 0]
        ELSE step(run[i - 1], operations[i])
  IN run[Len(operations)]

\* operations.forEach(...) of $fetchR2Usage: the totals, or the TypeError raised
R2Totals(operations) ==
  LET step(acc, item) ==
        IF acc.threw THEN acc
        ELSE IF "dimensions" \notin DOMAIN item THEN TypeError("actionType")
        ELSE LET action == IF "actionType" \in DOMAIN item.dimensions
                           THEN item.dimensions.actionType ELSE "undefined"
                 requests == Prop(item, "sum", "requests")
             IN IF action \in R2_CLASS_A_OPERATIONS
                THEN (IF requests = TypeErr THEN TypeError("requests")
                      ELSE [acc EXCEPT !.classATotal = Add(@, requests)])
                ELSE IF action \in R2_CLASS_B_OPERATIONS
                THEN (IF requests = TypeErr THEN TypeError("requests")
                      ELSE [acc EXCEPT !.classBTotal = Add(@, requests)])
                ELSE acc
      run[i \in 0..Len(operations)] ==
        IF i = 0 THEN [threw |-> FALSE, classATotal |-> 0, classBTotal |-> 0]
        ELSE step(run[i - 1], operations[i])
  IN run[Len(operations)]

fetchR2Usage(opsData, storageData) ==
  LET operations == Groups(opsData, "r2OperationsAdaptiveGroups")
      storage == Groups(storageData, "r2StorageAdaptiveGroups")
  IN IF operations.threw THEN operations
     ELSE IF storage.threw THEN storage
     ELSE LET totals == R2Totals(operations.value)
              payloadSize == FirstProp(storage.value, "max", "payloadSize")
          IN IF totals.threw THEN totals
             ELSE IF payloadSize = TypeErr THEN TypeError("payloadSize")
             ELSE LET classATotal == totals.classATotal
                      classBTotal == totals.classBTotal
                      storageGB == bytesToGB(payloadSize)
                      classAOverage == calculateOverage(classATotal, R2_LIMITS.classAOperations, R2_LIMITS.classAOveragePer1M)
                      classBOverage == calculateOverage(classBTotal, R2_LIMITS.classBOperations, R2_LIMITS.classBOveragePer1M)
                      storageOverage == calculateStorageOverage(storageGB, R2_LIMITS.storageGB, R2_LIMITS.storagePerGB)
                  IN Return(buildProductUsage("R2 Storage", <<
                       buildMetric([name |-> "Class A Operations", current |-> classATotal, limit |-> R2_LIMITS.classAOperations, unit |-> "requests", rate |-> "$4.50/1M requests"], classAOverage),
                       buildMetric([name |-> "Class B Operations", current |-> classBTotal, limit |-> R2_LIMITS.classBOperations, unit |-> "requests", rate |-> "$0.36/1M requests"], classBOverage),
                       buildMetric([name |-> "Storage", current |-> storageGB, limit |-> R2_LIMITS.storageGB, unit |-> "GB", rate |-> "$0.015/GB-month"], storageOverage)
                     >>))

\* totalCpuUs / 1000, the product cpuTimeP50 * requests being in CounterUnit microseconds
UsToMs(totalCpuUs) == IF IsNumber(totalCpuUs) THEN totalCpuUs \div 1000 ELSE NaN

\* cpuTimeP50 * requests
Mul(a, b) == IF IsNumber(a) /\ IsNumber(b) THEN a * b ELSE NaN

\* a forEach that adds cpuTimeP50 without weighting it by the requests
WorkersTotalsUnweighted(invocations) ==
  LET step(acc, item) ==
        IF acc.threw THEN acc
        ELSE IF "sum" \notin DOMAIN item THEN TypeError("requests")
        ELSE IF "quantiles" \notin DOMAIN item THEN TypeError("cpuTimeP50")
        ELSE [acc EXCEPT
                !.totalRequests = Add(@, Prop(item, "sum", "requests")),
                !.totalCpuUs = Add(@, Prop(item, "quantiles", "cpuTimeP50"))]
      run[i \in 0..Len(invocations)] ==
        IF i = 0 THEN [threw |-> FALSE, totalRequests |-> 0, totalCpuUs |-> 0]
        ELSE step(run[i - 1], invocations[i])
  IN run[Len(invocations)]

\* invocations.forEach(...) of $fetchWorkersUsage
WorkersTotals(invocations) ==
  LET step(acc, item) ==
        IF acc.threw THEN acc
        ELSE IF "sum" \notin DOMAIN item THEN TypeError("requests")
        ELSE IF "quantiles" \notin DOMAIN item THEN TypeError("cpuTimeP50")
        ELSE [acc EXCEPT
                !.totalRequests = Add(@, Prop(item, "sum", "requests")),
                !.totalCpuUs = Add(@, Mul(Prop(item, "quantiles", "cpuTimeP50"),
                                          Prop(item, "sum", "requests")))]
      run[i \in 0..Len(invocations)] ==
        IF i = 0 THEN [threw |-> FALSE, totalRequests |-> 0, totalCpuUs |-> 0]
        ELSE step(run[i - 1], invocations[i])
  IN run[Len(invocations)]

fetchWorkersUsage(data) ==
  LET invocations == Groups(data, "workersInvocationsAdaptive")
  IN IF invocations.threw THEN invocations
     ELSE LET totals == WorkersTotals(invocations.value)
          IN IF totals.threw THEN totals
             ELSE LET totalRequests == totals.totalRequests
                      totalCpuMs == UsToMs(totals.totalCpuUs)
                      requestsOverage == calculateOverage(totalRequests, WORKERS_PAID_LIMITS.requestsPerMonth, WORKERS_PAID_LIMITS.requestOveragePer1M)
                      cpuOverage == calculateOverage(totalCpuMs, WORKERS_PAID_LIMITS.cpuMsPerMonth, WORKERS_PAID_LIMITS.cpuOveragePer1M)
                  IN Return(buildProductUsage("Workers", <<
                       buildMetric([name |-> "Requests", current |-> totalRequests, limit |-> WORKERS_PAID_LIMITS.requestsPerMonth, unit |-> "requests", rate |-> "$0.30/1M requests"], requestsOverage),
                       buildMetric([name |-> "CPU Time (est.)", current |-> totalCpuMs, limit |-> WORKERS_PAID_LIMITS.cpuMsPerMonth, unit |-> "ms", rate |-> "$0.02/1M ms"], cpuOverage)
                     >>))

\* the chain of $fetchKVUsage with the tests for delete and list put first
KVBucketDeleteFirst(action) ==
  IF includes(action, <<"d","e","l","e","t","e">>) THEN "deletes"
  ELSE IF includes(action, <<"l","i","s","t">>) THEN "lists"
  ELSE IF includes(action, <<"r","e","a","d">>) \/ includes(action, <<"g","e","t">>) THEN "reads"
  ELSE IF includes(action, <<"w","r","i","t","e">>) \/ includes(action, <<"p","u","t">>) THEN "writes"
  ELSE "none"

\* the bucket of a lower-cased KV action type: the if / else if chain of $fetchKVUsage
KVBucket(action) ==
  IF includes(action, <<"r","e","a","d">>) \/ includes(action, <<"g","e","t">>) THEN "reads"
  ELSE IF includes(action, <<"w","r","i","t","e">>) \/ includes(action, <<"p","u","t">>) THEN "writes"
  ELSE IF includes(action, <<"d","e","l","e","t","e">>) THEN "deletes"
  ELSE IF includes(action, <<"l","i","s","t">>) THEN "lists"
  ELSE "none"

\* operations.forEach(...) of $fetchKVUsage
KVTotals(operations) ==
  LET step(acc, item) ==
        IF acc.threw THEN acc
        ELSE IF "dimensions" \notin DOMAIN item THEN TypeError("actionType")
        ELSE IF "actionType" \notin DOMAIN item.dimensions THEN TypeError("toLowerCase")
        ELSE LET bucket == KVBucket(toLowerCase(item.dimensions.actionType))
                 requests == Prop(item, "sum", "requests")
             IN IF bucket = "none" THEN acc
                ELSE IF requests = TypeErr THEN TypeError("requests")
                ELSE [acc EXCEPT ![bucket] = Add(@, requests)]
      run[i \in 0..Len(operations)] ==
        IF i = 0 THEN [threw |-> FALSE, reads |-> 0, writes |-> 0, deletes |-> 0, lists |-> 0]
        ELSE step(run[i - 1], operations[i])
  IN run[Len(operations)]

fetchKVUsage(opsData, storageData) ==
  LET operations == Groups(opsData, "kvOperationsAdaptiveGroups")
      storage == Groups(storageData, "kvStorageAdaptiveGroups")
  IN IF operations.threw THEN operations
     ELSE IF storage.threw THEN storage
     ELSE LET totals == KVTotals(operations.value)
              byteCount == FirstProp(storage.value, "max", "byteCount")
          IN IF totals.threw THEN totals
             ELSE IF byteCount = TypeErr THEN TypeError("byteCount")
             ELSE LET reads == totals.reads
                      writes == totals.writes
                      deletes == totals.deletes
                      lists == totals.lists
                      storageGB == bytesToGB(byteCount)
                      readsOverage == calculateOverage(reads, KV_PAID_LIMITS.readsPerMonth, KV_PAID_LIMITS.readOveragePer1M)
                      writesOverage == calculateOverage(writes, KV_PAID_LIMITS.writesPerMonth, KV_PAID_LIMITS.writeOveragePer1M)
                      deletesOverage == calculateOverage(deletes, KV_PAID_LIMITS.deletesPerMonth, KV_PAID_LIMITS.deleteOveragePer1M)
                      listsOverage == calculateOverage(lists, KV_PAID_LIMITS.listsPerMonth, KV_PAID_LIMITS.listOveragePer1M)
                      storageOverage == calculateStorageOverage(storageGB, KV_PAID_LIMITS.storageGB, KV_PAID_LIMITS.storagePerGB)
                  IN Return(buildProductUsage("Workers KV", <<
                       buildMetric([name |-> "Reads", current |-> reads, limit |-> KV_PAID_LIMITS.readsPerMonth, unit |-> "requests", rate |-> "$0.50/1M reads"], readsOverage),
                       buildMetric([name |-> "Writes", current |-> writes, limit |-> KV_PAID_LIMITS.writesPerMonth, unit |-> "requests", rate |-> "$5.00/1M writes"], writesOverage),
                       buildMetric([name |-> "Deletes", current |-> deletes, limit |-> KV_PAID_LIMITS.deletesPerMonth, unit |-> "requests", rate |-> "$5.00/1M deletes"], deletesOverage),
                       buildMetric([name |-> "Lists", current |-> lists, limit |-> KV_PAID_LIMITS.listsPerMonth, unit |-> "requests", rate |-> "$5.00/1M lists"], listsOverage),
                       buildMetric([name |-> "Storage", current |-> storageGB, limit |-> KV_PAID_LIMITS.storageGB, unit |-> "GB", rate |-> "$0.50/GB-month"], storageOverage)
                     >>))

fetchD1Usage(analyticsData, storageData) ==
  LET analytics == Groups(analyticsData, "d1AnalyticsAdaptiveGroups")
      storage == Groups(storageData, "d1StorageAdaptiveGroups")
  IN IF analytics.threw THEN analytics
     ELSE IF storage.threw THEN storage
     ELSE LET totalRowsRead == sumField(analytics.value, <<"sum", "rowsRead">>)
              totalRowsWritten == sumField(analytics.value, <<"sum", "rowsWritten">>)
              storageBytes == sumField(storage.value, <<"max", "databaseSizeBytes">>)
          IN IF totalRowsRead = TypeErr THEN TypeError("rowsRead")
             ELSE IF totalRowsWritten = TypeErr THEN TypeError("rowsWritten")
             ELSE IF storageBytes = TypeErr THEN TypeError("databaseSizeBytes")
             ELSE LET storageGB == bytesToGB(storageBytes)
                      rowsReadOverage == calculateOverage(totalRowsRead, D1_LIMITS.rowsReadPerMonth, D1_LIMITS.rowsReadOveragePer1M)
                      rowsWrittenOverage == calculateOverage(totalRowsWritten, D1_LIMITS.rowsWrittenPerMonth, D1_LIMITS.rowsWrittenOveragePer1M)
                      storageOverage == calculateStorageOverage(storageGB, D1_LIMITS.storageGB, D1_LIMITS.storageOveragePerGB)
                  IN Return(buildProductUsage("D1 Database", <<
                       buildMetric([name |-> "Rows Read", current |-> totalRowsRead, limit |-> D1_LIMITS.rowsReadPerMonth, unit |-> "rows", rate |-> "$0.001/1M rows"], rowsReadOverage),
                       buildMetric([name |-> "Rows Written", current |-> totalRowsWritten, limit |-> D1_LIMITS.rowsWrittenPerMonth, unit |-> "rows", rate |-> "$1.00/1M rows"], rowsWrittenOverage),
                       buildMetric([name |-> "Storage", current |-> storageGB, limit |-> D1_LIMITS.storageGB, unit |-> "GB", rate |-> "$0.75/GB-month"], storageOverage)
                     >>))

fetchImagesUsage(data) ==
  LET images == Groups(data, "imagesRequestsAdaptiveGroups")
  IN IF images.threw THEN images
     ELSE LET totalRequests == sumField(images.value, <<"sum", "requests">>)
          IN IF totalRequests = TypeErr THEN TypeError("requests")
             ELSE LET deliveredCost == calculatePer100KCost(totalRequests, IMAGES_LIMITS.deliveredPer100K)
                  IN Return(buildProductUsage("Images", <<
                       buildMetric([name |-> "Requests", current |-> totalRequests, limit |-> 0, unit |-> "requests", rate |-> "$1.00/100K requests"], deliveredCost)
                     >>))

\* new Date(now.getFullYear(), now.getMonth() + 1, 0).getDate()
daysInMonth(clock) ==
  getDate(LocalMidnight(clock, getFullYear(clock), getMonth(clock) + 1, 0))

fetchWorkersAIUsage(data, clock) ==
  LET aiData == Groups(data, "aiInferenceAdaptiveGroups")
  IN IF aiData.threw THEN aiData
     ELSE LET totalNeurons == sumField(aiData.value, <<"sum", "totalNeurons">>)
          IN IF totalNeurons = TypeErr THEN TypeError("totalNeurons")
             ELSE LET monthlyFreeNeurons == WORKERS_AI_LIMITS.neuronsPerDay * daysInMonth(clock)
                      neuronCost == calculatePer1KCost(totalNeurons, monthlyFreeNeurons, WORKERS_AI_LIMITS.neuronOveragePer1K)
                  IN Return(buildProductUsage("Workers AI", <<
                       buildMetric([name |-> "Neurons", current |-> totalNeurons, limit |-> monthlyFreeNeurons, unit |-> "neurons", rate |-> "$0.011/1K neurons"], neuronCost)
                     >>))

fetchVectorizeUsage(queriesData, storageData) ==
  LET queries == Groups(queriesData, "vectorizeV2QueriesAdaptiveGroups")
      storage == Groups(storageData, "vectorizeV2StorageAdaptiveGroups")
  IN IF queries.threw THEN queries
     ELSE IF storage.threw THEN storage
     ELSE LET queriedDimensions == sumField(queries.value, <<"sum", "queriedVectorDimensions">>)
              storedDimensions == sumField(storage.value, <<"max", "storedVectorDimensions">>)
          IN IF queriedDimensions = TypeErr THEN TypeError("queriedVectorDimensions")
             ELSE IF storedDimensions = TypeErr THEN TypeError("storedVectorDimensions")
             ELSE LET queriedOverage == calculateOverage(queriedDimensions, VECTORIZE_LIMITS.queriedDimensionsPerMonth, VECTORIZE_LIMITS.queriedOveragePer1M)
                      storedOverage == calculateOverage(storedDimensions, VECTORIZE_LIMITS.storedDimensionsPerMonth, VECTORIZE_LIMITS.storedOveragePer1M)
                  IN Return(buildProductUsage("Vectorize", <<
                       buildMetric([name |-> "Queried Dimensions", current |-> queriedDimensions, limit |-> VECTORIZE_LIMITS.queriedDimensionsPerMonth, unit |-> "dimensions", rate |-> "$0.01/1M dimensions"], queriedOverage),
                       buildMetric([name |-> "Stored Dimensions", current |-> storedDimensions, limit |-> VECTORIZE_LIMITS.storedDimensionsPerMonth, unit |-> "dimensions", rate |-> "$0.05/1M dim-month"], storedOverage)
                     >>))

-----------------------------------------------------------------------------
(* api.ts: $fetchAllUsage.                                                 *)

\* the slots of the summary, in the order of the Promise.all array
Products == <<"r2", "workers", "kv", "d1", "images", "ai", "vectorize">>
ProductSet == {Products[i] : i \in 1..Len(Products)}

\* the service name given to captureError for each slot
ServiceName ==
  [p \in ProductSet |->
     CASE p = "r2" -> "R2 Storage" [] p = "workers" -> "Workers"
       [] p = "kv" -> "Workers KV" [] p = "d1" -> "D1 Database"
       [] p = "images" -> "Images" [] p = "ai" -> "Workers AI"
       [] p = "vectorize" -> "Vectorize"]

\* the upstream queries of each aggregator, named by the dataset they select,
\* in the order of the aggregator's fetchGraphQL calls
QueriesOf ==
  [p \in ProductSet |->
     CASE p = "r2" -> <<"r2OperationsAdaptiveGroups", "r2StorageAdaptiveGroups">>
       [] p = "workers" -> <<"workersInvocationsAdaptive">>
       [] p = "kv" -> <<"kvOperationsAdaptiveGroups", "kvStorageAdaptiveGroups">>
       [] p = "d1" -> <<"d1AnalyticsAdaptiveGroups", "d1StorageAdaptiveGroups">>
       [] p = "images" -> <<"imagesRequestsAdaptiveGroups">>
       [] p = "ai" -> <<"aiInferenceAdaptiveGroups">>
       [] p = "vectorize" -> <<"vectorizeV2QueriesAdaptiveGroups", "vectorizeV2StorageAdaptiveGroups">>]

QuerySetOf(p) == {QueriesOf[p][i] : i \in 1..Len(QueriesOf[p])}
Queries == UNION {QuerySetOf(p) : p \in ProductSet}
ProductOf(q) == CHOOSE p \in ProductSet : q \in QuerySetOf(p)

\* no response held for a query
NoResponse == [none |-> TRUE]
Held(r) == "none" \notin DOMAIN r

\* the body of $fetchXUsage after its awaits: g gives the response of each query
Aggregate(p, g, clock) ==
  CASE p = "r2" -> fetchR2Usage(g["r2OperationsAdaptiveGroups"], g["r2StorageAdaptiveGroups"])
    [] p = "workers" -> fetchWorkersUsage(g["workersInvocationsAdaptive"])
    [] p = "kv" -> fetchKVUsage(g["kvOperationsAdaptiveGroups"], g["kvStorageAdaptiveGroups"])
    [] p = "d1" -> fetchD1Usage(g["d1AnalyticsAdaptiveGroups"], g["d1StorageAdaptiveGroups"])
    [] p = "images" -> fetchImagesUsage(g["imagesRequestsAdaptiveGroups"])
    [] p = "ai" -> fetchWorkersAIUsage(g["aiInferenceAdaptiveGroups"], clock)
    [] p = "vectorize" -> fetchVectorizeUsage(g["vectorizeV2QueriesAdaptiveGroups"], g["vectorizeV2StorageAdaptiveGroups"])

\* captureError that labels every entry with the service of the first slot
ServiceErrorOfFirstSlot(p, message) ==
  [service |-> ServiceName[Products[1]], message |-> message]

\* captureError(service)(e): the entry pushed on errors
ServiceError(p, message) == [service |-> ServiceName[p], message |-> message]

\* overageCosts that adds the slots' costs but for the last slot
overageCostsButLast(slots) ==
  LET sum[i \in 0..Len(Products) - 1] ==
        IF i = 0 THEN 0
        ELSE Add(sum[i - 1], IF IsNull(slots[Products[i]]) THEN 0
                             ELSE slots[Products[i]].totalOverageCost)
  IN sum[Len(Products) - 1]

\* [r2, workers, kv, d1, images, ai, vectorize].reduce((sum, item) => sum + (item?.totalOverageCost ?? 0), 0)
overageCosts(slots) ==
  LET sum[i \in 0..Len(Products)] ==
        IF i = 0 THEN 0
        ELSE Add(sum[i - 1], IF IsNull(slots[Products[i]]) THEN 0
                             ELSE slots[Products[i]].totalOverageCost)
  IN sum[Len(Products)]

\* billingPeriod: new Date(y, m, 1) and new Date(y, m + 1, 0) of the local date, as ISO strings
billingPeriod(clock) ==
  [start |-> toISOString(LocalMidnight(clock, getFullYear(clock), getMonth(clock), 1)),
   end |-> toISOString(LocalMidnight(clock, getFullYear(clock), getMonth(clock) + 1, 0))]

\* Summary of a Promise.all without catch handlers: one failure, no usage at all
SummaryAllOrNothing(slots, errs, clock) ==
  [r2 |-> IF errs = <<>> THEN slots["r2"] ELSE Null,
   workers |-> IF errs = <<>> THEN slots["workers"] ELSE Null,
   kv |-> IF errs = <<>> THEN slots["kv"] ELSE Null,
   d1 |-> IF errs = <<>> THEN slots["d1"] ELSE Null,
   images |-> IF errs = <<>> THEN slots["images"] ELSE Null,
   ai |-> IF errs = <<>> THEN slots["ai"] ELSE Null,
   vectorize |-> IF errs = <<>> THEN slots["vectorize"] ELSE Null,
   errors |-> errs,
   totalEstimatedCost |-> Add(WORKERS_PAID_LIMITS.baseCost, overageCosts(slots)),
   billingPeriod |-> billingPeriod(clock)]

\* Summary that charges a failed product a flat dollar
SummaryChargingFailures(slots, errs, clock) ==
  [r2 |-> slots["r2"], workers |-> slots["workers"], kv |-> slots["kv"],
   d1 |-> slots["d1"], images |-> slots["images"], ai |-> slots["ai"],
   vectorize |-> slots["vectorize"],
   errors |-> errs,
   totalEstimatedCost |->
     Add(WORKERS_PAID_LIMITS.baseCost, Add(overageCosts(slots), Len(errs) * DollarScale)),
   billingPeriod |-> billingPeriod(clock)]

\* the object $fetchAllUsage returns
Summary(slots, errs, clock) ==
  [r2 |-> slots["r2"], workers |-> slots["workers"], kv |-> slots["kv"],
   d1 |-> slots["d1"], images |-> slots["images"], ai |-> slots["ai"],
   vectorize |-> slots["vectorize"],
   errors |-> errs,
   totalEstimatedCost |-> Add(WORKERS_PAID_LIMITS.baseCost, overageCosts(slots)),
   billingPeriod |-> billingPeriod(clock)]

-----------------------------------------------------------------------------
(* Upstream data: what the analytics API can answer to a query.            *)

\* a GraphQL body whose single account entry carries the groups of dataset q
Body(q, groups) == [data |-> [viewer |-> [accounts |-> <<(q :> groups)>>]]]

\* an HTTP 200 answer carrying that body
Ok(q, groups) == Http(TRUE, "200", "{...}", Body(q, groups))

\* counter groups as the queries select them
OpGroup(actionType, requests) ==
  [dimensions |-> [actionType |-> actionType], sum |-> [requests |-> requests]]
MaxGroup(field, value) == [max |-> (field :> value)]
SumGroup(field, value) == [sum |-> (field :> value)]
InvocationGroup(requests, cpuTimeP50) ==
  [sum |-> [requests |-> requests], quantiles |-> [cpuTimeP50 |-> cpuTimeP50]]
D1Group(databaseId, rowsRead, rowsWritten) ==
  [dimensions |-> [databaseId |-> databaseId],
   sum |-> [rowsRead |-> rowsRead, rowsWritten |-> rowsWritten]]
D1StorageGroup(databaseId, bytes) ==
  [dimensions |-> [databaseId |-> databaseId], max |-> [databaseSizeBytes |-> bytes]]

\* failures of the transport
Timeout == Rejected(<<"timeout">>)
ServerError == Http(FALSE, "500", "Internal Server Error", Unparsable)

\* the account of a month with usage beyond several free allowances
UsageGroups(q) ==
  CASE q = "r2OperationsAdaptiveGroups" -> <<OpGroup("PutObject", 20000), OpGroup("GetObject", 4)>>
    [] q = "r2StorageAdaptiveGroups" -> <<MaxGroup("payloadSize", 15360)>>
    [] q = "workersInvocationsAdaptive" -> <<InvocationGroup(120000, 2000)>>
    [] q = "kvOperationsAdaptiveGroups" -> <<OpGroup(<<"R","e","a","d","K","e","y">>, 120000)>>
    [] q = "kvStorageAdaptiveGroups" -> <<MaxGroup("byteCount", 512)>>
    [] q = "d1AnalyticsAdaptiveGroups" -> <<D1Group("db1", 10, 5)>>
    [] q = "d1StorageAdaptiveGroups" -> <<D1StorageGroup("db1", 1024)>>
    [] q = "imagesRequestsAdaptiveGroups" -> <<SumGroup("requests", 1000)>>
    [] q = "aiInferenceAdaptiveGroups" -> <<SumGroup("totalNeurons", 4000)>>
    [] q = "vectorizeV2QueriesAdaptiveGroups" -> <<SumGroup("queriedVectorDimensions", 100)>>
    [] q = "vectorizeV2StorageAdaptiveGroups" -> <<MaxGroup("storedVectorDimensions", 60000)>>

\* the answers the upstream gives to query q while $fetchAllUsage runs: the
\* usage above, or a failure (for R2 a different one for each of its two queries)
Upstream(q) ==
  {Ok(q, UsageGroups(q)),
   IF q = "r2StorageAdaptiveGroups" THEN ServerError ELSE Timeout}

\* the configurations of the worker: each variable set or missing
Envs ==
  [CLOUDFLARE_ACCOUNT_ID : {"", "account-1"}, CLOUDFLARE_API_TOKEN : {"", "token-1"}]

Instant(y, m, d, h) == [y |-> y, m |-> m, d |-> d, h |-> h, mi |-> 30, s |-> 15, ms |-> 250]
Clock(utc, tz) == [utc |-> utc, tz |-> tz]

\* the instants at which $fetchAllUsage is observed: 15 October 2026, 12:30 UTC, on a UTC host
Clocks == {Clock(Instant(2026, 9, 15, 12), 0)}

-----------------------------------------------------------------------------
(* Values of the variables that an operation does not use.                 *)

NoCall == [fn |-> "none"]
NoOutcome == [kind |-> "none"]
IdleFanOut ==
  /\ pc = "idle"
  /\ query = [q \in Queries |-> "idle"]
  /\ issued = [q \in Queries |-> 0]
  /\ got = [q \in Queries |-> NoResponse]
  /\ promise = [p \in ProductSet |-> [st |-> "none"]]
  /\ slot = [p \in ProductSet |-> Null]
  /\ errors = <<>>
  /\ outcome = NoOutcome

-----------------------------------------------------------------------------
(* $fetchAllUsage as a state machine.                                      *)

Init ==
  /\ call = NoCall
  /\ env \in Envs
  /\ now \in Clocks
  /\ IdleFanOut

\* the promise of p's aggregator after the synchronous part of $fetchXUsage():
\* getAccountId(), then the credentials check of each fetchGraphQL call
Started(p, e) ==
  IF getAccountId(e).threw THEN [st |-> "rejected", reason |-> getAccountId(e).message]
  ELSE IF fetchGraphQLConfigured(e).threw
  THEN [st |-> "rejected", reason |-> fetchGraphQLConfigured(e).message]
  ELSE [st |-> "pending"]

\* $fetchAllUsage is called: getAccountId(), then the seven aggregators are started
Call ==
  /\ pc = "idle"
  /\ IF getAccountId(env).threw
     THEN /\ pc' = "raised"
          /\ outcome' = [kind |-> "raised", message |-> getAccountId(env).message]
          /\ UNCHANGED <<query, issued, promise>>
     ELSE /\ pc' = "awaiting"
          /\ promise' = [p \in ProductSet |-> Started(p, env)]
          /\ query' = [q \in Queries |->
                         IF Started(ProductOf(q), env).st = "pending" THEN "inflight" ELSE "refused"]
          /\ issued' = [q \in Queries |->
                          IF Started(ProductOf(q), env).st = "pending" THEN issued[q] + 1 ELSE issued[q]]
          /\ outcome' = outcome
  /\ UNCHANGED <<call, env, now, got, slot, errors>>

\* a catch handler that returns null without recording the error
CapturedSilently(p, message) ==
  /\ errors' = errors
  /\ slot' = [slot EXCEPT ![p] = Null]
  /\ promise' = [promise EXCEPT ![p] = [st |-> "caught", reason |-> message]]

\* the .catch(captureError(service)) handler of p runs on a rejection with message:
\* the aggregator's promise stays rejected with that reason, the handler's
\* promise resolves to null
Captured(p, message) ==
  /\ errors' = Append(errors, ServiceError(p, message))
  /\ slot' = [slot EXCEPT ![p] = Null]
  /\ promise' = [promise EXCEPT ![p] = [st |-> "caught", reason |-> message]]

\* an aggregator rejected before any fetch: its catch handler runs
Capture(p) ==
  /\ pc = "awaiting"
  /\ promise[p].st = "rejected"
  /\ Captured(p, promise[p].reason)
  /\ UNCHANGED <<call, env, now, pc, query, issued, got, outcome>>

\* the responses p's aggregator holds once res has arrived for q
Arrived(p, q, body) == [x \in Queries |-> IF x = q THEN body ELSE got[x]]
Complete(p, g) == \A x \in QuerySetOf(p) : Held(g[x])
Cleared(p, g) == [x \in Queries |-> IF x \in QuerySetOf(p) THEN NoResponse ELSE g[x]]

\* the queries of p once its aggregator has settled: nothing awaits them any
\* more (a fetch still in flight is abandoned, its arrival changes no variable)
Closed(p) == [x \in Queries |-> IF x \in QuerySetOf(p) THEN "closed" ELSE query[x]]

\* an aggregator that waits for its other fetch before it rejects
FetchSettleDeferringFailure(q, res) ==
  LET p == ProductOf(q)
      r == fetchGraphQL(res)
  IN /\ pc \in {"awaiting", "returned"}
     /\ query[q] = "inflight"
     /\ promise[p].st = "pending"
     /\ IF r.threw /\ \E x \in QuerySetOf(p) \ {q} : query[x] = "inflight"
        THEN /\ query' = [query EXCEPT ![q] = "closed"]
             /\ UNCHANGED <<got, slot, errors, promise>>
        ELSE IF r.threw \/ \E x \in QuerySetOf(p) : query[x] = "closed"
        THEN /\ Captured(p, IF r.threw THEN r.message ELSE <<"fetch failed">>)
             /\ got' = Cleared(p, got)
             /\ query' = Closed(p)
        ELSE IF ~Complete(p, Arrived(p, q, r.value))
        THEN /\ got' = Arrived(p, q, r.value)
             /\ query' = [query EXCEPT ![q] = "arrived"]
             /\ UNCHANGED <<slot, errors, promise>>
        ELSE LET usage == Aggregate(p, Arrived(p, q, r.value), now)
             IN /\ got' = Cleared(p, got)
                /\ query' = Closed(p)
                /\ IF usage.threw
                   THEN Captured(p, usage.message)
                   ELSE /\ slot' = [slot EXCEPT ![p] = usage.value]
                        /\ promise' = [promise EXCEPT ![p] = [st |-> "fulfilled"]]
                        /\ errors' = errors
     /\ UNCHANGED <<call, env, now, pc, issued, outcome>>

\* fetchGraphQL that calls fetch() a second time after a first failure
FetchSettleRetrying(q, res) ==
  LET p == ProductOf(q)
      r == fetchGraphQL(res)
  IN /\ pc \in {"awaiting", "returned"}
     /\ query[q] = "inflight"
     /\ promise[p].st = "pending"
     /\ IF r.threw /\ issued[q] < 2
        THEN /\ issued' = [issued EXCEPT ![q] = issued[q] + 1]
             /\ UNCHANGED <<got, query, slot, errors, promise>>
        ELSE IF r.threw
        THEN /\ Captured(p, r.message)
             /\ got' = Cleared(p, got)
             /\ query' = Closed(p)
             /\ issued' = issued
        ELSE IF ~Complete(p, Arrived(p, q, r.value))
        THEN /\ got' = Arrived(p, q, r.value)
             /\ query' = [query EXCEPT ![q] = "arrived"]
             /\ UNCHANGED <<slot, errors, promise, issued>>
        ELSE LET usage == Aggregate(p, Arrived(p, q, r.value), now)
             IN /\ got' = Cleared(p, got)
                /\ query' = Closed(p)
                /\ issued' = issued
                /\ IF usage.threw
                   THEN Captured(p, usage.message)
                   ELSE /\ slot' = [slot EXCEPT ![p] = usage.value]
                        /\ promise' = [promise EXCEPT ![p] = [st |-> "fulfilled"]]
                        /\ errors' = errors
     /\ UNCHANGED <<call, env, now, pc, outcome>>

\* fetch() for q settles with res: fetchGraphQL finishes, and with it, when
\* nothing is awaited any more, the aggregator and its catch handler
FetchSettle(q, res) ==
  LET p == ProductOf(q)
      r == fetchGraphQL(res)
  IN /\ pc \in {"awaiting", "returned"}
     /\ query[q] = "inflight"
     /\ promise[p].st = "pending"
     /\ IF r.threw
        THEN /\ Captured(p, r.message)
             /\ got' = Cleared(p, got)
             /\ query' = Closed(p)
        ELSE IF ~Complete(p, Arrived(p, q, r.value))
        THEN /\ got' = Arrived(p, q, r.value)
             /\ query' = [query EXCEPT ![q] = "arrived"]
             /\ UNCHANGED <<slot, errors, promise>>
        ELSE LET usage == Aggregate(p, Arrived(p, q, r.value), now)
             IN /\ got' = Cleared(p, got)
                /\ query' = Closed(p)
                /\ IF usage.threw
                   THEN Captured(p, usage.message)
                   ELSE /\ slot' = [slot EXCEPT ![p] = usage.value]
                        /\ promise' = [promise EXCEPT ![p] = [st |-> "fulfilled"]]
                        /\ errors' = errors
     /\ UNCHANGED <<call, env, now, pc, issued, outcome>>

\* a summary returned without awaiting the aggregators
ReturnSummaryUnawaited ==
  /\ pc = "awaiting"
  /\ pc' = "returned"
  /\ outcome' = [kind |-> "summary", value |-> Summary(slot, errors, now)]
  /\ UNCHANGED <<call, env, now, query, issued, got, promise, slot, errors>>

\* a summary returned as soon as one aggregator has failed
ReturnSummaryOnFirstFailure ==
  /\ pc = "awaiting"
  /\ \/ \A p \in ProductSet : promise[p].st \in {"fulfilled", "caught"}
     \/ \E p \in ProductSet : promise[p].st = "caught"
  /\ pc' = "returned"
  /\ outcome' = [kind |-> "summary", value |-> Summary(slot, errors, now)]
  /\ UNCHANGED <<call, env, now, query, issued, got, promise, slot, errors>>

\* Promise.all resolves: the summary is built and returned
ReturnSummary ==
  /\ pc = "awaiting"
  /\ \A p \in ProductSet : promise[p].st \in {"fulfilled", "caught"}
  /\ pc' = "returned"
  /\ outcome' = [kind |-> "summary", value |-> Summary(slot, errors, now)]
  /\ UNCHANGED <<call, env, now, query, issued, got, promise, slot, errors>>

Next ==
  \/ Call
  \/ \E p \in ProductSet : Capture(p)
  \/ \E q \in Queries : \E res \in Upstream(q) : FetchSettle(q, res)
  \/ ReturnSummary

Spec == Init /\ [][Next]_vars

-----------------------------------------------------------------------------
(* Properties of $fetchAllUsage.                                           *)

\* the aggregators whose promise rejected
Failed == {p \in ProductSet : promise[p].st = "caught"}

\* the usage p's aggregator computes from the upstream's usage answers
ComputedUsage(p) ==
  Aggregate(p, [q \in QuerySetOf(p) |-> Body(q, UsageGroups(q))], now).value

RECURSIVE SumOver(_, _)
SumOver(S, f) ==
  IF S = {} THEN 0
  ELSE LET x == CHOOSE y \in S : TRUE IN f[x] + SumOver(S \ {x}, f)

\* the entries of the error list that carry p's service name
ErrorsOf(errs, p) == {i \in 1..Len(errs) : errs[i].service = ServiceName[p]}

\* C1: in every returned summary, totalEstimatedCost is the base fee plus the
\* sum of totalOverageCost over exactly the product slots that are not null.
C1_TotalIsBasePlusPresentOverages ==
  outcome.kind = "summary" =>
    LET s == outcome.value
        present == {p \in ProductSet : ~IsNull(s[p])}
    IN s.totalEstimatedCost =
         WORKERS_PAID_LIMITS.baseCost + SumOver(present, [p \in present |-> s[p].totalOverageCost])

\* a summary with three null slots and four products with an overage
C1_Witness ==
  /\ outcome.kind = "summary"
  /\ {p \in ProductSet : IsNull(outcome.value[p])} = {"r2", "kv", "images"}
  /\ outcome.value.totalEstimatedCost > WORKERS_PAID_LIMITS.baseCost
  /\ outcome.value["workers"].totalOverageCost > 0

\* C2: whatever set of aggregators fails, a summary is returned and nothing is
\* raised; exactly the failed slots are null, every other slot holds the
\* product's computed usage, and errors has exactly one entry per failed
\* aggregator, with its service name and the failure's message.
C2_FailedSlotsNullOneErrorEach ==
  /\ Failed # {} => outcome.kind # "raised"
  /\ outcome.kind = "summary" =>
       LET s == outcome.value
       IN /\ \A p \in Failed :
               /\ IsNull(s[p])
               /\ Cardinality(ErrorsOf(s.errors, p)) = 1
               /\ \A i \in ErrorsOf(s.errors, p) : s.errors[i].message = promise[p].reason
          /\ \A p \in ProductSet \ Failed :
               /\ ~IsNull(s[p])
               /\ s[p] = ComputedUsage(p)
               /\ ErrorsOf(s.errors, p) = {}
          /\ Len(s.errors) = Cardinality(Failed)

\* R2 failed on an HTTP 500 of its storage query and Workers AI on a timeout;
\* the other five slots are filled
C2_Witness ==
  /\ outcome.kind = "summary"
  /\ Failed = {"r2", "ai"}
  /\ \E i \in 1..2 :
       outcome.value.errors[i] =
         [service |-> "R2 Storage",
          message |-> <<"Cloudflare API error: ", "500", " - ", "Internal Server Error">>]
  /\ \E i \in 1..2 :
       outcome.value.errors[i] = [service |-> "Workers AI", message |-> <<"timeout">>]

\* C3: with the account identifier or the API token missing, the call raises
\* before any upstream fetch is issued and returns no summary.
C3_MissingConfigRaises ==
  (Falsy(env.CLOUDFLARE_ACCOUNT_ID) \/ Falsy(env.CLOUDFLARE_API_TOKEN)) =>
    /\ outcome.kind # "summary"
    /\ \A q \in Queries : issued[q] = 0
    /\ pc # "idle" => outcome.kind = "raised"

\* the account identifier is set and the API token is missing: no fetch was
\* issued, yet a summary came back, with seven errors in place of a raise
C3_TokenMissingReturnsSummary ==
  /\ ~Falsy(env.CLOUDFLARE_ACCOUNT_ID)
  /\ Falsy(env.CLOUDFLARE_API_TOKEN)
  /\ \A q \in Queries : issued[q] = 0
  /\ outcome.kind = "summary"
  /\ Len(outcome.value.errors) = 7
  /\ \A i \in 1..7 :
       outcome.value.errors[i].message =
         <<"Missing CLOUDFLARE_ACCOUNT_ID or CLOUDFLARE_API_TOKEN in .dev.vars">>

\* every aggregator was started and had at least one fetch fail
AllFailedUpstream ==
  /\ Failed = ProductSet
  /\ \A q \in Queries : issued[q] > 0

\* C4: when all seven aggregators fail on upstream failures, a summary is
\* still returned: seven null slots, seven errors, and the base fee as cost.
C4_AllFailStillSummary ==
  AllFailedUpstream =>
    /\ outcome.kind # "raised"
    /\ pc \in {"awaiting", "returned"}
    /\ outcome.kind = "summary" =>
         /\ \A p \in ProductSet : IsNull(outcome.value[p])
         /\ Len(outcome.value.errors) = 7
         /\ outcome.value.totalEstimatedCost = WORKERS_PAID_LIMITS.baseCost

C4_Witness ==
  /\ AllFailedUpstream
  /\ outcome.kind = "summary"
  /\ outcome.value.errors[1].service = "Vectorize"
  /\ outcome.value.errors[7].service = "R2 Storage"

\* C15: the billingPeriod of every returned summary is the calendar month of
\* the invocation in UTC: start is day 1 at 00:00:00.000 UTC, end is the last
\* day of that month at 23:59:59.999 UTC.
C15_BillingPeriodIsUTCMonth ==
  outcome.kind = "summary" =>
    /\ outcome.value.billingPeriod.start =
         [y |-> now.utc.y, m |-> now.utc.m, d |-> 1, h |-> 0, mi |-> 0, s |-> 0, ms |-> 0]
    /\ outcome.value.billingPeriod.end =
         [y |-> now.utc.y, m |-> now.utc.m, d |-> DaysIn(now.utc.y, now.utc.m),
          h |-> 23, mi |-> 59, s |-> 59, ms |-> 999]

\* a summary of October 2026 on a UTC host whose period ends with the first
\* instant of 31 October
C15_EndsAtMidnight ==
  /\ outcome.kind = "summary"
  /\ now = Clock(Instant(2026, 9, 15, 12), 0)
  /\ outcome.value.billingPeriod.start =
       [y |-> 2026, m |-> 9, d |-> 1, h |-> 0, mi |-> 0, s |-> 0, ms |-> 0]
  /\ outcome.value.billingPeriod.end =
       [y |-> 2026, m |-> 9, d |-> 31, h |-> 0, mi |-> 0, s |-> 0, ms |-> 0]

\* C20: within one invocation of $fetchAllUsage every upstream query is
\* issued at most once, whether its fetch failed or not: a query that was
\* answered, or abandoned after a failure, was issued exactly once, and a
\* query of an aggregator refused before its first fetch was never issued.
C20_EachQueryIssuedAtMostOnce ==
  \A q \in Queries :
    /\ issued[q] <= 1
    /\ query[q] \in {"inflight", "arrived", "closed"} => issued[q] = 1
    /\ query[q] \in {"idle", "refused"} => issued[q] = 0

\* a returned summary after the fetch of the R2 operations failed: the query
\* was issued once, R2 is reported as failed
C20_Witness ==
  /\ outcome.kind = "summary"
  /\ IsNull(outcome.value["r2"])
  /\ promise["r2"].st = "caught"
  /\ promise["r2"].reason = <<"timeout">>
  /\ issued["r2OperationsAdaptiveGroups"] = 1
  /\ issued["r2StorageAdaptiveGroups"] = 1

-----------------------------------------------------------------------------
(* Direct calls: each function of metrics.ts, and each aggregator on its   *)
(* own, applied once to inputs drawn from bounded sets.                    *)

\* largest magnitude of a number handed to a calculator
MaxCalcValue == 3
\* largest number of counter groups in one dataset of a response
MaxGroups == 2

CalcValues == (0 - MaxCalcValue)..MaxCalcValue

\* the rates of the pricing tables, by the calculator they are used with
Per1MRates ==
  {WORKERS_PAID_LIMITS.requestOveragePer1M, WORKERS_PAID_LIMITS.cpuOveragePer1M,
   R2_LIMITS.classAOveragePer1M, R2_LIMITS.classBOveragePer1M,
   KV_PAID_LIMITS.readOveragePer1M, KV_PAID_LIMITS.writeOveragePer1M,
   D1_LIMITS.rowsReadOveragePer1M, D1_LIMITS.rowsWrittenOveragePer1M,
   VECTORIZE_LIMITS.queriedOveragePer1M, VECTORIZE_LIMITS.storedOveragePer1M}
PerGBRates == {R2_LIMITS.storagePerGB, KV_PAID_LIMITS.storagePerGB, D1_LIMITS.storageOveragePerGB}
Per100KRates == {IMAGES_LIMITS.deliveredPer100K}
Per1KRates == {WORKERS_AI_LIMITS.neuronOveragePer1K}

Fixed == UNCHANGED <<env, now, pc, query, issued, got, promise, slot, errors, outcome>>

\* a calculator ran to its return statement: none of the four has a throw
Calculated(fn, current, limit, cost, result) ==
  call' = [fn |-> fn, current |-> current, limit |-> limit, cost |-> cost,
           threw |-> FALSE, result |-> result]

CallCalculateOverage ==
  /\ call = NoCall
  /\ \E current \in CalcValues, limit \in CalcValues, costPer1M \in Per1MRates :
       Calculated("calculateOverage", current, limit, costPer1M,
                  calculateOverage(current, limit, costPer1M))
  /\ Fixed

CallCalculateStorageOverage ==
  /\ call = NoCall
  /\ \E currentGB \in CalcValues, limitGB \in CalcValues, costPerGB \in PerGBRates :
       Calculated("calculateStorageOverage", currentGB, limitGB, costPerGB,
                  calculateStorageOverage(currentGB, limitGB, costPerGB))
  /\ Fixed

\* calculatePer100KCost has no limit parameter: it bills from zero
CallCalculatePer100KCost ==
  /\ call = NoCall
  /\ \E current \in CalcValues, costPer100K \in Per100KRates :
       Calculated("calculatePer100KCost", current, 0, costPer100K,
                  calculatePer100KCost(current, costPer100K))
  /\ Fixed

CallCalculatePer1KCost ==
  /\ call = NoCall
  /\ \E current \in CalcValues, limit \in CalcValues, costPer1K \in Per1KRates :
       Calculated("calculatePer1KCost", current, limit, costPer1K,
                  calculatePer1KCost(current, limit, costPer1K))
  /\ Fixed

CallBuildMetric ==
  /\ call = NoCall
  /\ \E current \in CalcValues \cup {NaN}, limit \in CalcValues, overageCost \in 0..MaxCalcValue :
       LET input == [name |-> "Requests", current |-> current, limit |-> limit,
                     unit |-> "requests", rate |-> "$1.00/100K requests"]
       IN call' = [fn |-> "buildMetric", input |-> input, overageCost |-> overageCost,
                   result |-> buildMetric(input, overageCost)]
  /\ Fixed

\* all sequences over S of length at most n
SeqsUpTo(S, n) == UNION {[1..k -> S] : k \in 0..n}

\* an object without properties
EmptyObject == <<>>

\* responses that lack the data object, the viewer, the accounts list, the
\* account entry, or the dataset of the account entry
ShapelessBodies ==
  {EmptyObject,
   [data |-> EmptyObject],
   [data |-> [viewer |-> EmptyObject]],
   [data |-> [viewer |-> [accounts |-> <<>>]]],
   [data |-> [viewer |-> [accounts |-> <<EmptyObject>>]]]}

\* KV action types
ReadKey == <<"R","e","a","d","K","e","y">>
WriteKey == <<"w","r","i","t","e">>
DeleteKey == <<"D","E","L","E","T","E">>
ListKeys == <<"l","i","s","t">>
PurgeKey == <<"p","u","r","g","e">>

\* the counts of the complete groups: zero, and (unless zeroOnly) one count
\* that takes the metric beyond its free allowance
Counts(zeroOnly, beyond) == IF zeroOnly THEN {0} ELSE {0, beyond}

\* the complete counter groups a dataset can hold
CompleteGroups(q, zeroOnly) ==
  CASE q = "r2OperationsAdaptiveGroups" ->
         {OpGroup(a, n) : a \in {"PutObject", "GetObject", "Unknown"}, n \in Counts(zeroOnly, 20000)}
    [] q = "r2StorageAdaptiveGroups" ->
         {MaxGroup("payloadSize", b) : b \in Counts(zeroOnly, 15360)}
    [] q = "workersInvocationsAdaptive" ->
         {InvocationGroup(r, c) : r \in Counts(zeroOnly, 120000), c \in {0, 2000}}
    [] q = "kvOperationsAdaptiveGroups" ->
         {OpGroup(a, n) : a \in {ReadKey, WriteKey, PurgeKey}, n \in Counts(zeroOnly, 120000)}
         \cup {OpGroup(a, n) : a \in {DeleteKey, ListKeys}, n \in (Counts(zeroOnly, 20000) \ {0})}
    [] q = "kvStorageAdaptiveGroups" ->
         {MaxGroup("byteCount", b) : b \in Counts(zeroOnly, 2048)}
    [] q = "d1AnalyticsAdaptiveGroups" ->
         {D1Group("db1", r, w) : r \in Counts(zeroOnly, 10), w \in Counts(zeroOnly, 600000)}
    [] q = "d1StorageAdaptiveGroups" ->
         {D1StorageGroup("db1", b) : b \in Counts(zeroOnly, 4096)}
    [] q = "imagesRequestsAdaptiveGroups" ->
         {SumGroup("requests", n) : n \in Counts(zeroOnly, 1000)}
    [] q = "aiInferenceAdaptiveGroups" ->
         {SumGroup("totalNeurons", n) : n \in Counts(zeroOnly, 4000)}
    [] q = "vectorizeV2QueriesAdaptiveGroups" ->
         {SumGroup("queriedVectorDimensions", n) : n \in Counts(zeroOnly, 400000)}
    [] q = "vectorizeV2StorageAdaptiveGroups" ->
         {MaxGroup("storedVectorDimensions", n) : n \in Counts(zeroOnly, 60000)}

\* groups lacking a sub-object or a numeric field
IncompleteGroups(q) ==
  CASE q = "r2OperationsAdaptiveGroups" ->
         {[dimensions |-> [actionType |-> "PutObject"]],
          [sum |-> [requests |-> 6]],
          [dimensions |-> [actionType |-> "GetObject"], sum |-> EmptyObject]}
    [] q = "workersInvocationsAdaptive" ->
         {[quantiles |-> [cpuTimeP50 |-> 2000]],
          [sum |-> [requests |-> 6]],
          [sum |-> EmptyObject, quantiles |-> [cpuTimeP50 |-> 2000]]}
    [] q = "kvOperationsAdaptiveGroups" ->
         {[dimensions |-> EmptyObject, sum |-> [requests |-> 6]],
          [sum |-> [requests |-> 6]],
          [dimensions |-> [actionType |-> ReadKey]]}
    [] q = "d1AnalyticsAdaptiveGroups" ->
         {[dimensions |-> [databaseId |-> "db1"]],
          [dimensions |-> [databaseId |-> "db1"], sum |-> [rowsRead |-> 10]]}
    [] q \in {"imagesRequestsAdaptiveGroups", "aiInferenceAdaptiveGroups",
              "vectorizeV2QueriesAdaptiveGroups"} ->
         {EmptyObject, [sum |-> EmptyObject]}
    [] OTHER -> {EmptyObject, [max |-> EmptyObject]}

Samples(q) == CompleteGroups(q, FALSE) \cup IncompleteGroups(q)

\* the bodies fetchGraphQL can return for query q
Bodies(q) == ShapelessBodies \cup {Body(q, groups) : groups \in SeqsUpTo(Samples(q), MaxGroups)}

\* the responses an aggregator can hold when its awaits are over
ResponsesFor(p) ==
  LET qs == QueriesOf[p]
  IN IF Len(qs) = 1
     THEN {(qs[1] :> b) : b \in Bodies(qs[1])}
     ELSE {(qs[1] :> b1) @@ (qs[2] :> b2) : b1 \in Bodies(qs[1]), b2 \in Bodies(qs[2])}

\* instants and hosts at which an aggregator reads the clock
FnClocks ==
  {Clock(Instant(2026, 9, 15, 12), 0),
   Clock(Instant(2026, 1, 10, 12), 0),
   Clock(Instant(2028, 1, 10, 12), 0),
   Clock(Instant(2026, 3, 30, 23), 2),
   Clock(Instant(2026, 9, 1, 3), -8),
   Clock(Instant(2026, 11, 31, 23), 1)}

\* the awaits of p's aggregator are over with responses g; its body runs at clock
AggregatorCalled(p) ==
  \E g \in ResponsesFor(p), clock \in (IF p = "ai" THEN FnClocks ELSE Clocks) :
    call' = [fn |-> "aggregator", product |-> p, responses |-> g, clock |-> clock,
             result |-> Aggregate(p, g, clock)]

CallFetchR2Usage ==
  /\ call = NoCall
  /\ AggregatorCalled("r2")
  /\ Fixed

CallFetchWorkersUsage ==
  /\ call = NoCall
  /\ AggregatorCalled("workers")
  /\ Fixed

CallFetchKVUsage ==
  /\ call = NoCall
  /\ AggregatorCalled("kv")
  /\ Fixed

CallFetchD1Usage ==
  /\ call = NoCall
  /\ AggregatorCalled("d1")
  /\ Fixed

CallFetchImagesUsage ==
  /\ call = NoCall
  /\ AggregatorCalled("images")
  /\ Fixed

CallFetchWorkersAIUsage ==
  /\ call = NoCall
  /\ AggregatorCalled("ai")
  /\ Fixed

CallFetchVectorizeUsage ==
  /\ call = NoCall
  /\ AggregatorCalled("vectorize")
  /\ Fixed

InitFn ==
  /\ call = NoCall
  /\ env = [CLOUDFLARE_ACCOUNT_ID |-> "account-1", CLOUDFLARE_API_TOKEN |-> "token-1"]
  /\ now \in Clocks
  /\ IdleFanOut

NextFn ==
  \/ CallCalculateOverage
  \/ CallCalculateStorageOverage
  \/ CallCalculatePer100KCost
  \/ CallCalculatePer1KCost
  \/ CallBuildMetric
  \/ CallFetchR2Usage
  \/ CallFetchWorkersUsage
  \/ CallFetchKVUsage
  \/ CallFetchD1Usage
  \/ CallFetchImagesUsage
  \/ CallFetchWorkersAIUsage
  \/ CallFetchVectorizeUsage

SpecFn == InitFn /\ [][NextFn]_vars

-----------------------------------------------------------------------------
(* Properties of the functions of metrics.ts and of the aggregators.       *)

Calculators ==
  {"calculateOverage", "calculateStorageOverage", "calculatePer100KCost", "calculatePer1KCost"}

\* an aggregator was called and returned a ProductUsage
Returned == call.fn = "aggregator" /\ ~call.result.threw

\* the sum of the overageCost of the metrics with index in S, in no order
RECURSIVE CostOver(_, _)
CostOver(S, metrics) ==
  IF S = {} THEN 0
  ELSE LET i == CHOOSE j \in S : TRUE
       IN Add(metrics[i].overageCost, CostOver(S \ {i}, metrics))

\* metrics with the entries at i and j exchanged
Swap(metrics, i, j) ==
  [k \in 1..Len(metrics) |->
     IF k = i THEN metrics[j] ELSE IF k = j THEN metrics[i] ELSE metrics[k]]

\* C5: the totalOverageCost of every ProductUsage an aggregator returns is the
\* sum of the overageCost of its metrics, and stays the same when the metrics
\* are put in another order (a cost that is not a number makes both sides NaN).
C5_TotalIsSumOfMetricCosts ==
  Returned =>
    LET usage == call.result.value
        n == Len(usage.metrics)
    IN /\ usage.totalOverageCost = CostOver(1..n, usage.metrics)
       /\ \A i \in 1..n : \A j \in 1..n :
            buildProductUsage(usage.product, Swap(usage.metrics, i, j)).totalOverageCost
              = usage.totalOverageCost

\* Workers KV with 12M reads and 12M writes: $1 and $55 of overage, $56 in total
C5_Witness ==
  /\ Returned
  /\ call.product = "kv"
  /\ call.result.value.metrics[1].overageCost = 1 * DollarScale
  /\ call.result.value.metrics[2].overageCost = 55 * DollarScale
  /\ call.result.value.totalOverageCost = 56 * DollarScale

\* the metrics that the last call built
BuiltMetrics ==
  IF call.fn = "buildMetric" THEN {call.result}
  ELSE IF Returned
  THEN {call.result.value.metrics[i] : i \in 1..Len(call.result.value.metrics)}
  ELSE {}

\* percentage, given as whole + rem/den, is current / limit * 100
IsPercentOf(percentage, current, limit) ==
  /\ percentage.whole = (current * 100) \div limit
  /\ limit % percentage.den = 0
  /\ percentage.rem * (limit \div percentage.den) = (current * 100) % limit

\* C6: the percentage of every metric built by buildMetric is
\* current / limit * 100 when limit > 0 (NaN when current is NaN), and 0 when
\* limit <= 0, whatever current is.
C6_PercentageRule ==
  \A m \in BuiltMetrics :
    IF m.limit > 0
    THEN (IF IsNumber(m.current) THEN IsPercentOf(m.percentage, m.current, m.limit)
          ELSE m.percentage.whole = NaN)
    ELSE m.percentage.whole = 0 /\ m.percentage.rem = 0

\* buildMetric with current 3 and limit 2: 150 per cent
C6_Witness ==
  /\ call.fn = "buildMetric"
  /\ call.input.current = 3
  /\ call.input.limit = 2
  /\ call.result.percentage = [whole |-> 150, rem |-> 0, den |-> 1]

\* the Images metric, built with limit 0, with 100,000 delivered images
C6_ImagesWitness ==
  /\ Returned
  /\ call.product = "images"
  /\ call.result.value.metrics[1].current = 1000
  /\ call.result.value.metrics[1].limit = 0
  /\ call.result.value.metrics[1].percentage.whole = 0

\* C7: each of the four overage calculators returns a result >= 0 for all
\* inputs, and exactly 0 whenever current <= limit.
C7_CalculatorsNonNegative ==
  call.fn \in Calculators =>
    /\ call.result >= 0
    /\ call.current <= call.limit => call.result = 0

\* calculatePer100KCost returned a negative cost for a negative current
C7_NegativeCost ==
  /\ call.fn = "calculatePer100KCost"
  /\ call.current < 0
  /\ call.result < 0

\* C8: the four overage calculators reject a negative current or a negative
\* limit, and return a cost without raising for every other input.
C8_CalculatorsRejectNegatives ==
  call.fn \in Calculators =>
    call.threw = (call.current < 0 \/ call.limit < 0)

\* calculateOverage returned the cost 0 for a negative current
C8_NegativeAccepted ==
  /\ call.fn = "calculateOverage"
  /\ call.current < 0
  /\ call.limit >= 0
  /\ ~call.threw
  /\ call.result = 0

\* every query of p's aggregator was answered with complete groups whose
\* counters are all zero, or with no group at all
EmptyResults ==
  /\ call.fn = "aggregator"
  /\ \A q \in QuerySetOf(call.product) :
       \E groups \in SeqsUpTo(CompleteGroups(q, TRUE), MaxGroups) :
         call.responses[q] = Body(q, groups)

\* C9: on empty result sets (no counter groups, or all counters zero) each
\* aggregator returns a ProductUsage, not null and no failure, in which every
\* metric has percentage 0 and overageCost 0, and totalOverageCost is 0.
C9_EmptyResultsGiveZeroUsage ==
  EmptyResults =>
    /\ ~call.result.threw
    /\ ~IsNull(call.result.value)
    /\ Len(call.result.value.metrics) > 0
    /\ \A i \in 1..Len(call.result.value.metrics) :
         /\ call.result.value.metrics[i].percentage = Ratio(0, 1)
         /\ call.result.value.metrics[i].overageCost = 0
    /\ call.result.value.totalOverageCost = 0

\* R2 with two operation groups of zero requests and no storage group
C9_Witness ==
  /\ EmptyResults
  /\ call.product = "r2"
  /\ Len(Groups(call.responses["r2OperationsAdaptiveGroups"], "r2OperationsAdaptiveGroups").value) = 2
  /\ Groups(call.responses["r2StorageAdaptiveGroups"], "r2StorageAdaptiveGroups").value = <<>>
  /\ call.result.value.totalOverageCost = 0

\* C10: whatever nested field a successful response lacks, the aggregator does
\* not fail, and every metric it returns has a finite current value and cost.
C10_MissingFieldsAreNoData ==
  call.fn = "aggregator" =>
    /\ ~call.result.threw
    /\ \A i \in 1..Len(call.result.value.metrics) :
         /\ IsNumber(call.result.value.metrics[i].current)
         /\ IsNumber(call.result.value.metrics[i].overageCost)
    /\ IsNumber(call.result.value.totalOverageCost)

\* the R2 aggregator failed with a TypeError on a response without a data object
C10_NoDataObjectFails ==
  /\ call.fn = "aggregator"
  /\ call.product = "r2"
  /\ call.responses["r2OperationsAdaptiveGroups"] = EmptyObject
  /\ call.result = TypeError("viewer")

-----------------------------------------------------------------------------
(* Well-formed responses: the aggregators that classify operations or      *)
(* convert bytes, called on complete groups with a wider choice of action  *)
(* types.                                                                  *)

\* KV action types that contain two of the words the aggregator looks for
GetList == <<"G","e","t","L","i","s","t">>
PutDelete == <<"P","u","t","D","e","l","e","t","e">>
DeleteList == <<"d","e","l","e","t","e","L","i","s","t">>
ReadWrite == <<"R","E","A","D","W","R","I","T","E">>

KVActionTypes ==
  {ReadKey, WriteKey, DeleteKey, ListKeys, PurgeKey, GetList, PutDelete, DeleteList, ReadWrite}

\* R2 action types: the members of both classes, and names that are in neither
R2ActionTypes ==
  R2_CLASS_A_OPERATIONS \cup R2_CLASS_B_OPERATIONS \cup {"Unknown", "putobject", "PutObjectAcl"}

\* the operation groups of the two classifying aggregators
OperationGroups(p) ==
  IF p = "kv" THEN {OpGroup(a, n) : a \in KVActionTypes, n \in {7, 20}}
  ELSE {OpGroup(a, 6) : a \in R2ActionTypes} \cup {OpGroup("GetObject", 4)}

\* the storage groups: none, or one group (R2: 15 GiB, KV: 2 GiB)
StorageGroups(p) ==
  IF p = "kv" THEN {<<>>, <<MaxGroup("byteCount", 2048)>>}
  ELSE {<<>>, <<MaxGroup("payloadSize", 15360)>>}

\* the aggregator of p (R2 or KV) is called on operations and storage
Classified(p) ==
  \E operations \in SeqsUpTo(OperationGroups(p), MaxGroups), storage \in StorageGroups(p) :
    LET g == (QueriesOf[p][1] :> Body(QueriesOf[p][1], operations))
               @@ (QueriesOf[p][2] :> Body(QueriesOf[p][2], storage))
    IN \E clock \in Clocks :
         call' = [fn |-> "aggregator", product |-> p, responses |-> g, clock |-> clock,
                  result |-> Aggregate(p, g, clock)]

ClassifyR2Operations ==
  /\ call = NoCall
  /\ Classified("r2")
  /\ Fixed

ClassifyKVOperations ==
  /\ call = NoCall
  /\ Classified("kv")
  /\ Fixed

\* $fetchD1Usage on no analytics group and up to MaxGroups databases of 0 or 4 GiB
MeasureD1Storage ==
  /\ call = NoCall
  /\ \E storage \in SeqsUpTo(CompleteGroups("d1StorageAdaptiveGroups", FALSE), MaxGroups) :
       LET g == ("d1AnalyticsAdaptiveGroups" :> Body("d1AnalyticsAdaptiveGroups", <<>>))
                  @@ ("d1StorageAdaptiveGroups" :> Body("d1StorageAdaptiveGroups", storage))
       IN \E clock \in Clocks :
            call' = [fn |-> "aggregator", product |-> "d1", responses |-> g, clock |-> clock,
                     result |-> Aggregate("d1", g, clock)]
  /\ Fixed

NextUsage ==
  \/ ClassifyR2Operations
  \/ ClassifyKVOperations
  \/ MeasureD1Storage

SpecUsage == InitFn /\ [][NextUsage]_vars

\* the groups of the q-th query of the last aggregator call
GroupsOf(i) ==
  Groups(call.responses[QueriesOf[call.product][i]], QueriesOf[call.product][i]).value

\* the sum of the requests of the operation groups with index in S
RECURSIVE RequestsOver(_, _)
RequestsOver(S, operations) ==
  IF S = {} THEN 0
  ELSE LET i == CHOOSE j \in S : TRUE
       IN operations[i].sum.requests + RequestsOver(S \ {i}, operations)

\* the action type contains word, whatever the case of its letters
HasWord(action, word) ==
  \E i \in 1..Len(action) :
    /\ i + Len(word) - 1 <= Len(action)
    /\ \A k \in 1..Len(word) :
         \/ action[i + k - 1] = word[k]
         \/ /\ action[i + k - 1] \in DOMAIN UpperToLower
            /\ UpperToLower[action[i + k - 1]] = word[k]

\* the bucket the priority order read/get, write/put, delete, list gives
BucketByPriority(action) ==
  IF HasWord(action, <<"r","e","a","d">>) \/ HasWord(action, <<"g","e","t">>) THEN 1
  ELSE IF HasWord(action, <<"w","r","i","t","e">>) \/ HasWord(action, <<"p","u","t">>) THEN 2
  ELSE IF HasWord(action, <<"d","e","l","e","t","e">>) THEN 3
  ELSE IF HasWord(action, <<"l","i","s","t">>) THEN 4
  ELSE 0

\* the groups of operations that fall in bucket b
InBucket(operations, b) ==
  {i \in 1..Len(operations) : BucketByPriority(operations[i].dimensions.actionType) = b}

\* C11: the KV aggregator adds every operation group to the one bucket that
\* the priority order read/get, write/put, delete, list gives for its action
\* type, matched as a substring whatever the case; a group matching no word
\* is added nowhere, so the four buckets add up to the requests of the
\* matching groups.
C11_KVBucketsByPriority ==
  (Returned /\ call.product = "kv") =>
    LET operations == GroupsOf(1)
        metrics == call.result.value.metrics
    IN /\ \A b \in 1..4 : metrics[b].current = RequestsOver(InBucket(operations, b), operations)
       /\ metrics[1].current + metrics[2].current + metrics[3].current + metrics[4].current
            = RequestsOver((1..Len(operations)) \ InBucket(operations, 0), operations)

\* "PutDelete" (700 requests) went to writes and "purge" (2000) to no bucket
C11_Witness ==
  /\ Returned
  /\ call.product = "kv"
  /\ GroupsOf(1) = <<OpGroup(PutDelete, 7), OpGroup(PurgeKey, 20)>>
  /\ call.result.value.metrics[2].current = 7
  /\ call.result.value.metrics[3].current = 0

\* C12: the class A and class B sets of R2 are disjoint; a group is added to
\* class A iff its action type is a member of the class A set, to class B iff
\* it is a member of the class B set, and to neither total otherwise.
C12_R2ClassesByMembership ==
  /\ R2_CLASS_A_OPERATIONS \cap R2_CLASS_B_OPERATIONS = {}
  /\ (Returned /\ call.product = "r2") =>
       LET operations == GroupsOf(1)
           metrics == call.result.value.metrics
           classA == {i \in 1..Len(operations) :
                        operations[i].dimensions.actionType \in R2_CLASS_A_OPERATIONS}
           classB == {i \in 1..Len(operations) :
                        operations[i].dimensions.actionType \in R2_CLASS_B_OPERATIONS}
       IN /\ metrics[1].current = RequestsOver(classA, operations)
          /\ metrics[2].current = RequestsOver(classB, operations)

\* "DeleteObject" counted in class B, "putobject" in neither class
C12_Witness ==
  /\ Returned
  /\ call.product = "r2"
  /\ GroupsOf(1) = <<OpGroup("DeleteObject", 6), OpGroup("putobject", 6)>>
  /\ call.result.value.metrics[1].current = 0
  /\ call.result.value.metrics[2].current = 6

-----------------------------------------------------------------------------
(* Billing formulas of the metrics.                                        *)

\* the counter metrics of each product: position in metrics, and the limit and
\* the rate per 1M of the pricing table
CounterMetrics(p) ==
  CASE p = "workers" ->
         {[at |-> 1, limit |-> WORKERS_PAID_LIMITS.requestsPerMonth, rate |-> WORKERS_PAID_LIMITS.requestOveragePer1M],
          [at |-> 2, limit |-> WORKERS_PAID_LIMITS.cpuMsPerMonth, rate |-> WORKERS_PAID_LIMITS.cpuOveragePer1M]}
    [] p = "r2" ->
         {[at |-> 1, limit |-> R2_LIMITS.classAOperations, rate |-> R2_LIMITS.classAOveragePer1M],
          [at |-> 2, limit |-> R2_LIMITS.classBOperations, rate |-> R2_LIMITS.classBOveragePer1M]}
    [] p = "kv" ->
         {[at |-> 1, limit |-> KV_PAID_LIMITS.readsPerMonth, rate |-> KV_PAID_LIMITS.readOveragePer1M],
          [at |-> 2, limit |-> KV_PAID_LIMITS.writesPerMonth, rate |-> KV_PAID_LIMITS.writeOveragePer1M],
          [at |-> 3, limit |-> KV_PAID_LIMITS.deletesPerMonth, rate |-> KV_PAID_LIMITS.deleteOveragePer1M],
          [at |-> 4, limit |-> KV_PAID_LIMITS.listsPerMonth, rate |-> KV_PAID_LIMITS.listOveragePer1M]}
    [] p = "d1" ->
         {[at |-> 1, limit |-> D1_LIMITS.rowsReadPerMonth, rate |-> D1_LIMITS.rowsReadOveragePer1M],
          [at |-> 2, limit |-> D1_LIMITS.rowsWrittenPerMonth, rate |-> D1_LIMITS.rowsWrittenOveragePer1M]}
    [] p = "vectorize" ->
         {[at |-> 1, limit |-> VECTORIZE_LIMITS.queriedDimensionsPerMonth, rate |-> VECTORIZE_LIMITS.queriedOveragePer1M],
          [at |-> 2, limit |-> VECTORIZE_LIMITS.storedDimensionsPerMonth, rate |-> VECTORIZE_LIMITS.storedOveragePer1M]}
    [] OTHER -> {}

\* max(0, current - limit) / unit * rate, for a rate that is a whole number of
\* dollar units per unit of the counter; NaN for a current that is no number
LinearCost(current, limit, rate, unit) ==
  IF ~IsNumber(current) THEN NaN
  ELSE IF current > limit THEN (current - limit) * (rate \div unit)
  ELSE 0

\* C13: every counter metric (Workers requests and CPU, R2 class A and B, KV
\* reads, writes, deletes and lists, D1 rows, Vectorize dimensions) carries
\* the limit of the pricing table and the overageCost
\* max(0, current - limit) / 1,000,000 * ratePer1M.
C13_CounterMetricsLinearPer1M ==
  Returned =>
    \A m \in CounterMetrics(call.product) :
      LET metric == call.result.value.metrics[m.at]
      IN /\ m.rate % Per1M = 0
         /\ metric.limit = m.limit
         /\ metric.overageCost = LinearCost(metric.current, m.limit, m.rate, Per1M)

\* 12,000,000 KV reads against the limit of 10,000,000 at $0.50 per 1M: $1.00
C13_Witness ==
  /\ Returned
  /\ call.product = "kv"
  /\ call.result.value.metrics[1].current = 12000000 \div CounterUnit
  /\ call.result.value.metrics[1].limit = 10000000 \div CounterUnit
  /\ call.result.value.metrics[1].overageCost = DollarScale
  /\ call.result.value.metrics[2].overageCost = 0

\* the byte-based storage metric of each product: position in metrics, and
\* the limit and the rate per GB of the pricing table
StorageMetric(p) ==
  CASE p = "r2" -> [at |-> 3, limit |-> R2_LIMITS.storageGB, rate |-> R2_LIMITS.storagePerGB]
    [] p = "kv" -> [at |-> 5, limit |-> KV_PAID_LIMITS.storageGB, rate |-> KV_PAID_LIMITS.storagePerGB]
    [] p = "d1" -> [at |-> 3, limit |-> D1_LIMITS.storageGB, rate |-> D1_LIMITS.storageOveragePerGB]

RECURSIVE DatabaseBytes(_)
DatabaseBytes(storage) ==
  IF storage = <<>> THEN 0
  ELSE Head(storage).max.databaseSizeBytes + DatabaseBytes(Tail(storage))

\* the bytes (in MiB) the upstream reports as stored: the first storage group
\* of R2 and of KV, the sum over the databases of D1; 0 without groups
StoredBytes ==
  LET storage == GroupsOf(2)
  IN CASE call.product = "d1" -> DatabaseBytes(storage)
       [] call.product = "r2" -> IF storage = <<>> THEN 0 ELSE storage[1].max.payloadSize
       [] call.product = "kv" -> IF storage = <<>> THEN 0 ELSE storage[1].max.byteCount

\* C14: every byte-based storage metric (R2, KV, D1) is the stored bytes
\* divided by 1024^3 and is billed max(0, currentGB - limitGB) * ratePerGB,
\* with the limit and the rate of the pricing table.
C14_StorageInBinaryGBBilledPerGB ==
  Returned =>
    LET m == StorageMetric(call.product)
        metric == call.result.value.metrics[m.at]
    IN /\ m.rate % GBScale = 0
       /\ metric.current * MiBPerGB = StoredBytes * GBScale
       /\ metric.limit = m.limit
       /\ metric.overageCost = LinearCost(metric.current, m.limit, m.rate, GBScale)

\* R2 with 600 PutObject and 400 GetObject requests and 15 GiB of payload:
\* class A 600 and class B 400 without overage, 15 GB with $0.075 overage
C14_Witness ==
  /\ Returned
  /\ call.product = "r2"
  /\ GroupsOf(1) = <<OpGroup("PutObject", 600 \div CounterUnit), OpGroup("GetObject", 400 \div CounterUnit)>>
  /\ GroupsOf(2) = <<MaxGroup("payloadSize", 15 * MiBPerGB)>>
  /\ LET metrics == call.result.value.metrics
     IN /\ metrics[1].current = 600 \div CounterUnit /\ metrics[1].overageCost = 0
        /\ metrics[2].current = 400 \div CounterUnit /\ metrics[2].overageCost = 0
        /\ metrics[3].current = 15 * GBScale
        /\ metrics[3].overageCost = (75 * DollarScale) \div 1000
  /\ call.result.value.totalOverageCost = (75 * DollarScale) \div 1000

\* C16: the Workers AI aggregator takes as free threshold neuronsPerDay times
\* the number of days of the UTC month of the call, the month of getMonthStart,
\* and bills max(0, neurons - threshold) / 1000 * ratePer1K.
C16_NeuronThresholdOfUTCMonth ==
  (Returned /\ call.product = "ai") =>
    LET monthStart == getMonthStart(call.clock)
        threshold == WORKERS_AI_LIMITS.neuronsPerDay * DaysIn(monthStart.y, monthStart.m)
        metric == call.result.value.metrics[1]
    IN /\ WORKERS_AI_LIMITS.neuronOveragePer1K % Per1K = 0
       /\ metric.limit = threshold
       /\ metric.overageCost =
            LinearCost(metric.current, threshold, WORKERS_AI_LIMITS.neuronOveragePer1K, Per1K)

\* 30 April 2026, 23:30 UTC on a host two hours ahead of UTC: the window starts
\* with April, the threshold is that of the 31 days of May
C16_ThresholdOfLocalMonth ==
  /\ Returned
  /\ call.product = "ai"
  /\ call.clock = Clock(Instant(2026, 3, 30, 23), 2)
  /\ getMonthStart(call.clock).m = 3
  /\ call.result.value.metrics[1].limit = WORKERS_AI_LIMITS.neuronsPerDay * 31

-----------------------------------------------------------------------------
(* Two invocations in a row: an aggregator is called, returns, and is       *)
(* called again on the same responses; $fetchAllUsage is called, returns,  *)
(* and is called again while the upstream answers as it did the first      *)
(* time, or differently for the queries of one product.  call keeps what   *)
(* the first invocation returned.                                          *)

\* the clock readings of the second invocation: five days later in the month,
\* and a day of the next month
ClocksAgain ==
  {Clock(Instant(2026, 9, 20, 12), 0),
   Clock(Instant(2026, 10, 2, 12), 0)}

\* the bodies an aggregator is handed in both of its invocations
BodiesTwice(q) == ShapelessBodies \cup {Body(q, <<>>), Body(q, UsageGroups(q))}

ResponsesTwice(p) ==
  LET qs == QueriesOf[p]
  IN IF Len(qs) = 1
     THEN {(qs[1] :> b) : b \in BodiesTwice(qs[1])}
     ELSE {(qs[1] :> b1) @@ (qs[2] :> b2) : b1 \in BodiesTwice(qs[1]), b2 \in BodiesTwice(qs[2])}

\* the sets of queries that the upstream fails during an invocation
FailingQueries ==
  {{},
   {"r2OperationsAdaptiveGroups", "r2StorageAdaptiveGroups"},
   {"kvOperationsAdaptiveGroups", "aiInferenceAdaptiveGroups"}}

\* the answer of the upstream to each query when it fails those of F
Answers(F) ==
  [q \in Queries |->
     IF q \notin F THEN Ok(q, UsageGroups(q))
     ELSE IF q = "r2StorageAdaptiveGroups" THEN ServerError ELSE Timeout]

\* the upstream during one invocation: the usage with some queries failed, or
\* the usage with no Workers invocation in the month
UpstreamAnswers ==
  {Answers(F) : F \in FailingQueries}
    \cup {[Answers({}) EXCEPT !["workersInvocationsAdaptive"] = Ok("workersInvocationsAdaptive", <<>>)]}

\* the products that u and v answer differently
DifferingProducts(u, v) == {p \in ProductSet : \E q \in QuerySetOf(p) : u[q] # v[q]}

\* the upstream of a second invocation after u: as u, but for one product at most
UpstreamAgain(u) == {v \in UpstreamAnswers : Cardinality(DifferingProducts(u, v)) <= 1}

\* first invocation of p's aggregator
CallOnce(p) ==
  /\ call = NoCall
  /\ \E g \in ResponsesTwice(p), clock \in Clocks :
       call' = [fn |-> "aggregator", product |-> p, responses |-> g, clock |-> clock,
                result |-> Aggregate(p, g, clock)]
  /\ Fixed

\* second invocation of the same aggregator, holding the same responses
CallTwice ==
  /\ call.fn = "aggregator"
  /\ "before" \notin DOMAIN call
  /\ \E clock \in ClocksAgain :
       call' = [fn |-> "aggregator", product |-> call.product, responses |-> call.responses,
                clock |-> clock, result |-> Aggregate(call.product, call.responses, clock),
                before |-> call.result, clockBefore |-> call.clock]
  /\ Fixed

\* first invocation of $fetchAllUsage
Invoke ==
  /\ call.fn = "fetchAllUsage"
  /\ pc = "idle"
  /\ IF getAccountId(env).threw
     THEN /\ pc' = "raised"
          /\ outcome' = [kind |-> "raised", message |-> getAccountId(env).message]
          /\ UNCHANGED <<query, issued, promise>>
     ELSE /\ pc' = "awaiting"
          /\ promise' = [p \in ProductSet |-> Started(p, env)]
          /\ query' = [q \in Queries |->
                         IF Started(ProductOf(q), env).st = "pending" THEN "inflight" ELSE "refused"]
          /\ issued' = [q \in Queries |->
                          IF Started(ProductOf(q), env).st = "pending" THEN issued[q] + 1 ELSE issued[q]]
          /\ outcome' = outcome
  /\ UNCHANGED <<call, env, now, got, slot, errors>>

\* fetch() for q settles with the answer the upstream has for q
FetchSettleAsBefore(q) ==
  /\ call.fn = "fetchAllUsage"
  /\ FetchSettle(q, call.upstream[q])

\* $fetchAllUsage is called again after it returned; errs is the array its
\* errors constant is bound to
Reinvoked(errs) ==
  /\ call.fn = "fetchAllUsage"
  /\ call.round = 1
  /\ pc = "returned"
  /\ now' \in ClocksAgain
  /\ \E u \in UpstreamAgain(call.upstream) :
       call' = [fn |-> "fetchAllUsage", upstream |-> u, round |-> 2,
                before |-> outcome.value, clockBefore |-> now, upstreamBefore |-> call.upstream]
  /\ errors' = errs
  /\ slot' = [p \in ProductSet |-> Null]
  /\ got' = [q \in Queries |-> NoResponse]
  /\ IF getAccountId(env).threw
     THEN /\ pc' = "raised"
          /\ outcome' = [kind |-> "raised", message |-> getAccountId(env).message]
          /\ promise' = [p \in ProductSet |-> [st |-> "none"]]
          /\ query' = [q \in Queries |-> "idle"]
          /\ issued' = [q \in Queries |-> 0]
     ELSE /\ pc' = "awaiting"
          /\ promise' = [p \in ProductSet |-> Started(p, env)]
          /\ query' = [q \in Queries |->
                         IF Started(ProductOf(q), env).st = "pending" THEN "inflight" ELSE "refused"]
          /\ issued' = [q \in Queries |->
                          IF Started(ProductOf(q), env).st = "pending" THEN 1 ELSE 0]
          /\ outcome' = NoOutcome
  /\ UNCHANGED env

\* $fetchAllUsage with one errors array shared by all invocations
InvokeAgainSharingErrors == Reinvoked(errors)

\* const errors = [] is evaluated by every invocation
InvokeAgain == Reinvoked(<<>>)

InitTwice ==
  /\ call \in {NoCall} \cup {[fn |-> "fetchAllUsage", upstream |-> u, round |-> 1] :
                               u \in UpstreamAnswers}
  /\ env = [CLOUDFLARE_ACCOUNT_ID |-> "account-1", CLOUDFLARE_API_TOKEN |-> "token-1"]
  /\ now \in Clocks
  /\ IdleFanOut

NextTwice ==
  \/ \E p \in ProductSet : CallOnce(p)
  \/ CallTwice
  \/ Invoke
  \/ \E q \in Queries : FetchSettleAsBefore(q)
  \/ ReturnSummary
  \/ InvokeAgain

SpecTwice == InitTwice /\ [][NextTwice]_vars

\* both clock readings fall in the same month of the host's calendar
SameLocalMonth(c1, c2) ==
  /\ getFullYear(c1) = getFullYear(c2)
  /\ getMonth(c1) = getMonth(c2)

\* the second invocation of an aggregator, or of $fetchAllUsage, has returned
AggregatorTwice == call.fn = "aggregator" /\ "before" \in DOMAIN call
SummaryTwice == call.fn = "fetchAllUsage" /\ call.round = 2 /\ outcome.kind = "summary"
SameUpstream == call.upstream = call.upstreamBefore

ServicesOf(errs) == {errs[i].service : i \in 1..Len(errs)}

\* C17 as stated: a second invocation with identical upstream counter groups
\* yields the output of the first.
C17_SameGroupsSameOutput ==
  /\ AggregatorTwice => call.result = call.before
  /\ (SummaryTwice /\ SameUpstream) => outcome.value = call.before

\* C17: no invocation sees state written by an earlier one.  A second
\* invocation with identical upstream answers returns, for every aggregator but
\* Workers AI, the result of the first; for Workers AI and for the product
\* slots, the total and the billingPeriod of $fetchAllUsage it does so when
\* both run in the same month of the host's calendar; the errors list of the
\* second summary has as many entries as the first, for the same services.
C17_SameGroupsSameMonthSameUsage ==
  /\ (AggregatorTwice /\ (call.product # "ai" \/ SameLocalMonth(call.clockBefore, call.clock))) =>
       call.result = call.before
  /\ (SummaryTwice /\ SameUpstream) =>
       /\ Len(outcome.value.errors) = Len(call.before.errors)
       /\ ServicesOf(outcome.value.errors) = ServicesOf(call.before.errors)
       /\ \A p \in ProductSet \ {"ai"} : outcome.value[p] = call.before[p]
       /\ SameLocalMonth(call.clockBefore, now) =>
            /\ outcome.value["ai"] = call.before["ai"]
            /\ outcome.value.totalEstimatedCost = call.before.totalEstimatedCost
            /\ outcome.value.billingPeriod = call.before.billingPeriod

\* a second summary, five days after the first, with the same two failures
C17_Witness ==
  /\ SummaryTwice
  /\ SameUpstream
  /\ now = Clock(Instant(2026, 9, 20, 12), 0)
  /\ Len(call.before.errors) = 2
  /\ Len(outcome.value.errors) = 2
  /\ ~IsNull(outcome.value["r2"])
  /\ outcome.value["r2"] = call.before["r2"]

\* the Workers AI aggregator called in October and again in November on the
\* same neurons: the limit of the second result is that of 30 days
C17_AnotherMonthAnotherLimit ==
  /\ AggregatorTwice
  /\ call.product = "ai"
  /\ ~call.result.threw
  /\ call.result.value.metrics[1].current = call.before.value.metrics[1].current
  /\ call.before.value.metrics[1].limit = WORKERS_AI_LIMITS.neuronsPerDay * 31
  /\ call.result.value.metrics[1].limit = WORKERS_AI_LIMITS.neuronsPerDay * 30

\* the queries of p are answered in the second invocation as in the first
SameAnswersFor(p) == \A q \in QuerySetOf(p) : call.upstream[q] = call.upstreamBefore[q]

\* C18: in two runs of $fetchAllUsage in which the upstream answers the
\* queries of at most one product differently (success, failure or counters),
\* the slot of every other product is the same in both summaries (for Workers
\* AI, whose result depends on the month, when both run in the same month).
C18_OtherSlotsUnaffected ==
  SummaryTwice =>
    \A p \in ProductSet :
      (SameAnswersFor(p) /\ (p # "ai" \/ SameLocalMonth(call.clockBefore, now))) =>
        outcome.value[p] = call.before[p]

\* R2 answered in the first run and failed in the second: its slot went from a
\* usage to null, the slots of Workers and Workers AI are what they were
C18_Witness ==
  /\ SummaryTwice
  /\ DifferingProducts(call.upstream, call.upstreamBefore) = {"r2"}
  /\ SameLocalMonth(call.clockBefore, now)
  /\ ~IsNull(call.before["r2"])
  /\ IsNull(outcome.value["r2"])
  /\ ~IsNull(outcome.value["workers"])
  /\ outcome.value["workers"] = call.before["workers"]
  /\ outcome.value["ai"] = call.before["ai"]

-----------------------------------------------------------------------------
(* $fetchAllUsage with an upstream that is free never to answer: fetch()   *)
(* is called without a signal or a timeout, so only the steps of the       *)
(* handler itself are certain to be taken once they are possible.          *)

InitStall ==
  /\ call \in {[fn |-> "fetchAllUsage", upstream |-> u, round |-> 1] : u \in UpstreamAnswers}
  /\ env = [CLOUDFLARE_ACCOUNT_ID |-> "account-1", CLOUDFLARE_API_TOKEN |-> "token-1"]
  /\ now \in Clocks
  /\ IdleFanOut

NextStall ==
  \/ Invoke
  \/ \E q \in Queries : FetchSettleAsBefore(q)
  \/ ReturnSummary

SpecStall ==
  /\ InitStall
  /\ [][NextStall]_vars
  /\ WF_vars(Invoke)
  /\ WF_vars(ReturnSummary)

\* the aggregators that have not settled
Pending == {p \in ProductSet : promise[p].st = "pending"}

\* C19: when $fetchAllUsage is cancelled or times out while aggregators are
\* pending, it ends as if they had failed: once the operation is awaiting its
\* aggregators, a summary follows in which every aggregator that completed
\* reports its usage and every other slot is null with one error entry.
C19_PendingEndAsFailed ==
  (pc = "awaiting") ~>
    /\ outcome.kind = "summary"
    /\ \A p \in ProductSet :
         outcome.value[p] = IF promise[p].st = "fulfilled" THEN slot[p] ELSE Null
    /\ Len(outcome.value.errors) = Cardinality({p \in ProductSet : promise[p].st # "fulfilled"})

\* Workers has completed, the two fetches of R2 are still in flight
C19_CompletedBesidePending ==
  /\ pc = "awaiting"
  /\ promise["workers"].st = "fulfilled"
  /\ ~IsNull(slot["workers"])
  /\ "r2" \in Pending
  /\ query["r2OperationsAdaptiveGroups"] = "inflight"
  /\ query["r2StorageAdaptiveGroups"] = "inflight"
  /\ outcome = NoOutcome

-----------------------------------------------------------------------------
(* $fetchAllUsage with an upstream that answers some fetches with a        *)
(* transport failure, an error status or a GraphQL errors list.  The steps *)
(* of the handler are taken once they are possible; whether every fetch    *)
(* settles is up to the upstream.                                          *)

\* a 200 answer whose body carries the usage of q and a non-empty errors list
ErrorsWithData(q) ==
  Http(TRUE, "200", "{...}",
       [data |-> Body(q, UsageGroups(q)).data, errors |-> <<[message |-> "quota exceeded"]>>])

\* a 429 answer whose text would parse to the usage of q
Throttled(q) == Http(FALSE, "429", "{...}", Body(q, UsageGroups(q)))

\* the answers of the upstream during one invocation
FaultyAnswers ==
  {Answers({}),
   [Answers({}) EXCEPT !["kvOperationsAdaptiveGroups"] = ErrorsWithData("kvOperationsAdaptiveGroups"),
                       !["workersInvocationsAdaptive"] = Throttled("workersInvocationsAdaptive")],
   [Answers({"r2OperationsAdaptiveGroups", "r2StorageAdaptiveGroups"})
      EXCEPT !["d1StorageAdaptiveGroups"] = ErrorsWithData("d1StorageAdaptiveGroups")],
   [Answers({"vectorizeV2QueriesAdaptiveGroups", "vectorizeV2StorageAdaptiveGroups"})
      EXCEPT !["imagesRequestsAdaptiveGroups"] = Throttled("imagesRequestsAdaptiveGroups")]}

InitSettle ==
  /\ call \in {[fn |-> "fetchAllUsage", upstream |-> u, round |-> 1] : u \in FaultyAnswers}
  /\ env = [CLOUDFLARE_ACCOUNT_ID |-> "account-1", CLOUDFLARE_API_TOKEN |-> "token-1"]
  /\ now \in Clocks
  /\ IdleFanOut

SpecSettle ==
  /\ InitSettle
  /\ [][NextStall]_vars
  /\ WF_vars(Invoke)
  /\ WF_vars(ReturnSummary)

\* the answer has a status that is not OK, or a body with a non-empty errors list
ErrorAnswer(res) ==
  /\ res.kind = "http"
  /\ \/ ~res.ok
     \/ ("unparsable" \notin DOMAIN res.body /\ HasErrors(res.body))

\* the queries of p that the upstream answers with an error, or not at all
ErrorQueries(p) == {q \in QuerySetOf(p) : ErrorAnswer(call.upstream[q])}
FailedQueries(p) == {q \in QuerySetOf(p) : fetchGraphQL(call.upstream[q]).threw}

\* the usage p's aggregator computes from the data the answers carry, had
\* fetchGraphQL returned them
UsageOfData(p) == Aggregate(p, [q \in QuerySetOf(p) |-> Body(q, UsageGroups(q))], now).value

\* C21: an answer with a status that is not OK, or with a non-empty errors
\* list beside its data, makes fetchGraphQL raise; the owning product's slot is
\* never filled from the data, the summary has one ServiceError for that
\* product with the message of fetchGraphQL, and a product whose queries are
\* all answered well reports its usage.
C21_ErrorAnswersFailOwnProductOnly ==
  /\ \A q \in Queries : ErrorAnswer(call.upstream[q]) => fetchGraphQL(call.upstream[q]).threw
  /\ \A p \in ProductSet :
       /\ ErrorQueries(p) # {} => IsNull(slot[p])
       /\ (outcome.kind = "summary" /\ ErrorQueries(p) # {}) =>
            /\ IsNull(outcome.value[p])
            /\ Cardinality(ErrorsOf(outcome.value.errors, p)) = 1
            /\ \A i \in ErrorsOf(outcome.value.errors, p) :
                 \E q \in FailedQueries(p) :
                   outcome.value.errors[i].message = fetchGraphQL(call.upstream[q]).message
       /\ (outcome.kind = "summary" /\ FailedQueries(p) = {}) =>
            /\ outcome.value[p] = UsageOfData(p)
            /\ ErrorsOf(outcome.value.errors, p) = {}

\* KV answered 200 with data and an errors list, Workers answered 429: both are
\* reported as failed with fetchGraphQL's message, R2 reports its usage
C21_Witness ==
  /\ outcome.kind = "summary"
  /\ call.upstream["kvOperationsAdaptiveGroups"] = ErrorsWithData("kvOperationsAdaptiveGroups")
  /\ IsNull(outcome.value["kv"])
  /\ IsNull(outcome.value["workers"])
  /\ outcome.value.errors =
       <<[service |-> "Workers KV", message |-> <<"GraphQL error: ", "quota exceeded">>],
         [service |-> "Workers", message |-> <<"Cloudflare API error: ", "429", " - ", "{...}">>]>>
  /\ outcome.value["r2"] = UsageOfData("r2")

\* the aggregators that await two fetches in one Promise.all
TwoQueryProducts == {p \in ProductSet : Len(QueriesOf[p]) = 2}

\* C22: an aggregator with two parallel queries fails as soon as either
\* fails: the step in which the fetch of q settles with a failure while the
\* aggregator is pending rejects the aggregator with the message of q, appends
\* the product's only ServiceError with that message, and leaves nothing
\* awaiting the other query; no product ever has two entries, also when both
\* of its queries fail.
C22_FirstRejectionFailsAggregator ==
  /\ [][\A p \in TwoQueryProducts : \A q \in QuerySetOf(p) :
          (FetchSettleAsBefore(q) /\ fetchGraphQL(call.upstream[q]).threw) =>
            /\ ErrorsOf(errors, p) = {}
            /\ promise'[p] = [st |-> "caught", reason |-> fetchGraphQL(call.upstream[q]).message]
            /\ errors' = Append(errors, ServiceError(p, fetchGraphQL(call.upstream[q]).message))
            /\ \A x \in QuerySetOf(p) : query'[x] = "closed"]_vars
  /\ [](\A p \in TwoQueryProducts :
          /\ Cardinality(ErrorsOf(errors, p)) <= 1
          /\ (outcome.kind = "summary" /\ FailedQueries(p) # {}) =>
               Cardinality(ErrorsOf(outcome.value.errors, p)) = 1)

\* both fetches of R2 fail, the one for storage (the second of the array)
\* first: the only entry for R2 carries its message
C22_Witness ==
  /\ outcome.kind = "summary"
  /\ FailedQueries("r2") = QuerySetOf("r2")
  /\ Cardinality(ErrorsOf(outcome.value.errors, "r2")) = 1
  /\ \A i \in ErrorsOf(outcome.value.errors, "r2") :
       outcome.value.errors[i].message = fetchGraphQL(ServerError).message
  /\ fetchGraphQL(call.upstream["r2OperationsAdaptiveGroups"]).message =  <<"timeout">>

\* two invocations in the same month of the host's calendar during which the
\* upstream gave the same answers have both returned a summary: two
\* interleavings of the same completions
TwoInterleavings ==
  SummaryTwice /\ SameUpstream /\ SameLocalMonth(call.clockBefore, now)

EntriesOf(errs) == {errs[i] : i \in 1..Len(errs)}

\* C23 as stated: whatever the interleaving, the summary has the same product
\* slots, the same totalEstimatedCost and the same set of ServiceErrors.
C23_SameSummaryWhateverTheOrder ==
  TwoInterleavings =>
    /\ \A p \in ProductSet : outcome.value[p] = call.before[p]
    /\ outcome.value.totalEstimatedCost = call.before.totalEstimatedCost
    /\ EntriesOf(outcome.value.errors) = EntriesOf(call.before.errors)

\* C23: whatever the interleaving, the summary has the same product slots and
\* the same totalEstimatedCost, and one ServiceError for each of the same
\* failing services; the message of an entry is that of a failed fetch of its
\* product (the one that rejected first), and the order of the entries is
\* that of the rejections.
C23_SameSlotsTotalAndFailingServices ==
  TwoInterleavings =>
    /\ \A p \in ProductSet : outcome.value[p] = call.before[p]
    /\ outcome.value.totalEstimatedCost = call.before.totalEstimatedCost
    /\ ServicesOf(outcome.value.errors) = ServicesOf(call.before.errors)
    /\ Len(outcome.value.errors) = Cardinality(ServicesOf(outcome.value.errors))
    /\ Len(call.before.errors) = Cardinality(ServicesOf(call.before.errors))
    /\ \A p \in ProductSet : \A i \in ErrorsOf(outcome.value.errors, p) :
         \E q \in FailedQueries(p) :
           outcome.value.errors[i].message = fetchGraphQL(call.upstream[q]).message

\* KV and Workers AI failed in both runs: the first lists KV (declared before
\* Workers AI) first, the second lists Workers AI first
C23_Witness ==
  /\ TwoInterleavings
  /\ call.before.errors = <<ServiceError("kv", <<"timeout">>), ServiceError("ai", <<"timeout">>)>>
  /\ outcome.value.errors = <<ServiceError("ai", <<"timeout">>), ServiceError("kv", <<"timeout">>)>>
  /\ outcome.value["r2"] = call.before["r2"]
  /\ outcome.value.totalEstimatedCost = call.before.totalEstimatedCost

\* both fetches of R2 failed in both runs: the entry of the first run has the
\* message of one, the entry of the second run the message of the other
C23_MessageOfTheRace ==
  /\ TwoInterleavings
  /\ Len(call.before.errors) = 1
  /\ Len(outcome.value.errors) = 1
  /\ call.before.errors[1].service = "R2 Storage"
  /\ outcome.value.errors[1].service = "R2 Storage"
  /\ call.before.errors[1].message # outcome.value.errors[1].message

\* every aggregator has succeeded or failed
AllSettled == \A p \in ProductSet : promise[p].st \in {"fulfilled", "caught"}

\* a fetch that an aggregator awaits has not settled
FetchOutstanding == \E q \in Queries : query[q] = "inflight"

\* C24: $fetchAllUsage returns only after all seven aggregators have settled,
\* no ServiceError is appended to errors after the summary is returned (the
\* summary's errors stay the errors recorded), and when every upstream fetch
\* settles in the end, $fetchAllUsage returns in the end.
C24_ReturnsAfterAllSettled ==
  /\ [](pc = "returned" => AllSettled)
  /\ [](outcome.kind = "summary" => outcome.value.errors = errors)
  /\ [][pc = "returned" => errors' = errors]_vars
  /\ (<>[](~FetchOutstanding)) => <>(pc = "returned" /\ outcome.kind = "summary")

\* a summary returned after Vectorize and Images failed and the five other
\* aggregators succeeded
C24_Witness ==
  /\ pc = "returned"
  /\ outcome.kind = "summary"
  /\ AllSettled
  /\ Failed = {"vectorize", "images"}
  /\ Len(errors) = 2
  /\ outcome.value.errors = errors
  /\ \A q \in Queries : query[q] = "closed"

\* comparisons of JavaScript: false whenever an operand is NaN
Positive(x) == IsNumber(x) /\ x > 0
Over100(percentage) ==
  /\ IsNumber(percentage.whole)
  /\ \/ percentage.whole > 100
     \/ (percentage.whole = 100 /\ percentage.rem > 0)

\* C25: in every ProductUsage returned by an aggregator, a metric with
\* limit > 0 has overageCost > 0 exactly when current > limit, which is exactly
\* when percentage > 100; a metric with limit <= 0 (Images) has overageCost > 0
\* exactly when current > 0, and percentage 0.
C25_CostExactlyWhenOverLimit ==
  Returned =>
    \A i \in 1..Len(call.result.value.metrics) :
      LET m == call.result.value.metrics[i]
      IN IF m.limit > 0
         THEN /\ Positive(m.overageCost) <=> (IsNumber(m.current) /\ m.current > m.limit)
              /\ Over100(m.percentage) <=> (IsNumber(m.current) /\ m.current > m.limit)
         ELSE /\ Positive(m.overageCost) <=> Positive(m.current)
              /\ m.percentage.whole = 0
              /\ m.percentage.rem = 0

\* D1 with 60,000,000 rows written (limit 50,000,000) and 1,000 rows read:
\* the first metric is within its limit and free, the second is over and billed
C25_Witness ==
  /\ Returned
  /\ call.product = "d1"
  /\ LET metrics == call.result.value.metrics
     IN /\ metrics[1].current > 0
        /\ metrics[1].current < metrics[1].limit
        /\ metrics[1].overageCost = 0
        /\ ~Over100(metrics[1].percentage)
        /\ metrics[2].current = 60000000 \div CounterUnit
        /\ metrics[2].limit = 50000000 \div CounterUnit
        /\ metrics[2].percentage = [whole |-> 120, rem |-> 0, den |-> 1]
        /\ Positive(metrics[2].overageCost)

\* the field of the storage dataset that each aggregator reads, and the
\* position of the metric it feeds
StorageField(p) ==
  CASE p = "r2" -> [name |-> "payloadSize", at |-> 3]
    [] p = "kv" -> [name |-> "byteCount", at |-> 5]
    [] p = "d1" -> [name |-> "databaseSizeBytes", at |-> 3]
    [] p = "vectorize" -> [name |-> "storedVectorDimensions", at |-> 2]

\* every storage group carries the number the aggregator reads
StorageComplete(storage, field) ==
  \A i \in 1..Len(storage) :
    /\ "max" \in DOMAIN storage[i]
    /\ field \in DOMAIN storage[i].max
    /\ IsNumber(storage[i].max[field])

RECURSIVE OverAllGroups(_, _)
OverAllGroups(storage, field) ==
  IF storage = <<>> THEN 0
  ELSE Head(storage).max[field] + OverAllGroups(Tail(storage), field)

\* C26: of several storage groups the R2 and KV storage metrics use the first
\* only (0 without groups), whatever the later groups hold; the D1 storage
\* metric and the Vectorize stored dimensions are the sum over all groups.
C26_FirstGroupOrSumOfGroups ==
  (Returned /\ call.product \in {"r2", "kv", "d1", "vectorize"}) =>
    LET f == StorageField(call.product)
        storage == GroupsOf(2)
        current == call.result.value.metrics[f.at].current
        first == IF storage = <<>> THEN 0 ELSE storage[1].max[f.name]
    IN StorageComplete(storage, f.name) =>
         CASE call.product \in {"r2", "kv"} -> current * MiBPerGB = first * GBScale
           [] call.product = "d1" -> current * MiBPerGB = OverAllGroups(storage, f.name) * GBScale
           [] call.product = "vectorize" -> current = OverAllGroups(storage, f.name)

\* R2 with an empty first storage group and 15 GiB in the second: 0 GB
C26_Witness ==
  /\ Returned
  /\ call.product = "r2"
  /\ GroupsOf(2) = <<MaxGroup("payloadSize", 0), MaxGroup("payloadSize", 15 * MiBPerGB)>>
  /\ call.result.value.metrics[3].current = 0
  /\ call.result.value.metrics[3].overageCost = 0

\* D1 with two databases of 4 GiB each: 8 GB
C26_SumWitness ==
  /\ Returned
  /\ call.product = "d1"
  /\ Len(GroupsOf(2)) = 2
  /\ StorageComplete(GroupsOf(2), "databaseSizeBytes")
  /\ call.result.value.metrics[3].current = 8 * GBScale

\* every invocation group carries its two numbers
InvocationsComplete(invocations) ==
  \A i \in 1..Len(invocations) :
    /\ "sum" \in DOMAIN invocations[i]
    /\ "requests" \in DOMAIN invocations[i].sum
    /\ IsNumber(invocations[i].sum.requests)
    /\ "quantiles" \in DOMAIN invocations[i]
    /\ "cpuTimeP50" \in DOMAIN invocations[i].quantiles
    /\ IsNumber(invocations[i].quantiles.cpuTimeP50)

RECURSIVE RequestsOfAll(_)
RequestsOfAll(invocations) ==
  IF invocations = <<>> THEN 0
  ELSE Head(invocations).sum.requests + RequestsOfAll(Tail(invocations))

\* the sum over the groups of cpuTimeP50 (microseconds) times requests
RECURSIVE CpuUsOfAll(_)
CpuUsOfAll(invocations) ==
  IF invocations = <<>> THEN 0
  ELSE Head(invocations).quantiles.cpuTimeP50 * Head(invocations).sum.requests
         + CpuUsOfAll(Tail(invocations))

\* C27: the Workers aggregator reports as Requests the sum of requests over
\* all invocation groups, and as CPU time in milliseconds the sum over the
\* groups of cpuTimeP50 (microseconds) times requests, divided by 1000; both
\* are billed max(0, current - limit) / 1,000,000 * ratePer1M against the
\* Workers limits.
C27_WorkersRequestsAndCpuTime ==
  (Returned /\ call.product = "workers" /\ InvocationsComplete(GroupsOf(1))) =>
    LET invocations == GroupsOf(1)
        requests == call.result.value.metrics[1]
        cpu == call.result.value.metrics[2]
    IN /\ requests.current = RequestsOfAll(invocations)
       /\ cpu.current * 1000 = CpuUsOfAll(invocations)
       /\ requests.limit = WORKERS_PAID_LIMITS.requestsPerMonth
       /\ cpu.limit = WORKERS_PAID_LIMITS.cpuMsPerMonth
       /\ requests.overageCost =
            LinearCost(RequestsOfAll(invocations), WORKERS_PAID_LIMITS.requestsPerMonth,
                       WORKERS_PAID_LIMITS.requestOveragePer1M, Per1M)
       /\ cpu.overageCost =
            LinearCost(CpuUsOfAll(invocations) \div 1000, WORKERS_PAID_LIMITS.cpuMsPerMonth,
                       WORKERS_PAID_LIMITS.cpuOveragePer1M, Per1M)

\* two groups of 12,000,000 requests with a median of 2,000 microseconds:
\* 24,000,000 requests and 48,000,000 ms, both over their limits
C27_Witness ==
  /\ Returned
  /\ call.product = "workers"
  /\ GroupsOf(1) = <<InvocationGroup(12000000 \div CounterUnit, 2000),
                     InvocationGroup(12000000 \div CounterUnit, 2000)>>
  /\ call.result.value.metrics[1].current = 24000000 \div CounterUnit
  /\ call.result.value.metrics[2].current = 48000000 \div CounterUnit
  /\ call.result.value.metrics[1].overageCost > 0
  /\ call.result.value.metrics[2].overageCost > 0

-----------------------------------------------------------------------------
(* The self-contained engine of unnamed/part_001: every aggregator reads   *)
(* the account entry, adds the counters and builds its metrics in line.    *)
(* Its definitions carry the suffix Inline.  The forEach loops of R2,      *)
(* Workers and KV, fetchGraphQL and the calculators have the same text as  *)
(* in api.ts, graphql.ts and metrics.ts.                                   *)

\* (current / limit) * 100 without its factor 100
PercentInlineAsFraction(current, limit) ==
  IF IsNumber(current) /\ IsNumber(limit) /\ limit # 0
  THEN Ratio(current, limit)
  ELSE RatioNaN

\* percentage: (current / limit) * 100, written out for every metric
PercentInline(current, limit) ==
  IF IsNumber(current) /\ IsNumber(limit) /\ limit # 0
  THEN Ratio(current * 100, limit)
  ELSE RatioNaN

\* a metric literal of an aggregator
MetricInline(name, current, limit, unit, overageCost, rate) ==
  [name |-> name, current |-> current, limit |-> limit, unit |-> unit,
   percentage |-> PercentInline(current, limit),
   overageCost |-> overageCost, rate |-> rate]

\* bytes / (1024 * 1024 * 1024)
GBInline(bytes) == IF IsNumber(bytes) THEN (bytes * GBScale) \div MiBPerGB ELSE NaN

\* data.data.viewer.accounts[0]?.[field] ?? []
GroupsInline(data, field) ==
  IF "data" \notin DOMAIN data THEN TypeError("viewer")
  ELSE IF "viewer" \notin DOMAIN data.data THEN TypeError("accounts")
  ELSE IF "accounts" \notin DOMAIN data.data.viewer THEN TypeError("0")
  ELSE IF Len(data.data.viewer.accounts) = 0 THEN Return(<<>>)
  ELSE IF field \notin DOMAIN data.data.viewer.accounts[1] THEN Return(<<>>)
  ELSE Return(data.data.viewer.accounts[1][field])

\* items.forEach((item) => { total += item[f1][f2] }): a missing number makes
\* the total NaN, a missing sub-object makes the loop throw (TypeErr)
AddAllInline(items, f1, f2) ==
  LET sum[i \in 0..Len(items)] ==
        IF i = 0 THEN 0
        ELSE IF sum[i - 1] = TypeErr \/ Prop(items[i], f1, f2) = TypeErr THEN TypeErr
        ELSE Add(sum[i - 1], Prop(items[i], f1, f2))
  IN sum[Len(items)]

\* items.forEach((item) => { total += item[f1][f2] ?? 0 })
AddAllOrZeroInline(items, f1, f2) ==
  LET sum[i \in 0..Len(items)] ==
        IF i = 0 THEN 0
        ELSE IF sum[i - 1] = TypeErr \/ Prop(items[i], f1, f2) = TypeErr THEN TypeErr
        ELSE Add(sum[i - 1], Coalesce(Prop(items[i], f1, f2), 0))
  IN sum[Len(items)]

fetchR2UsageInline(opsData, storageData) ==
  LET operations == GroupsInline(opsData, "r2OperationsAdaptiveGroups")
      storage == GroupsInline(storageData, "r2StorageAdaptiveGroups")
  IN IF operations.threw THEN operations
     ELSE IF storage.threw THEN storage
     ELSE LET totals == R2Totals(operations.value)
              storageBytes == FirstProp(storage.value, "max", "payloadSize")
          IN IF totals.threw THEN totals
             ELSE IF storageBytes = TypeErr THEN TypeError("payloadSize")
             ELSE LET classATotal == totals.classATotal
                      classBTotal == totals.classBTotal
                      storageGB == GBInline(storageBytes)
                      classAOverage == calculateOverage(classATotal, R2_LIMITS.classAOperations, R2_LIMITS.classAOveragePer1M)
                      classBOverage == calculateOverage(classBTotal, R2_LIMITS.classBOperations, R2_LIMITS.classBOveragePer1M)
                      storageOverage == calculateStorageOverage(storageGB, R2_LIMITS.storageGB, R2_LIMITS.storagePerGB)
                  IN Return([product |-> "R2 Storage",
                             metrics |-> <<
                               MetricInline("Class A Operations", classATotal, R2_LIMITS.classAOperations, "requests", classAOverage, "$4.50/1M requests"),
                               MetricInline("Class B Operations", classBTotal, R2_LIMITS.classBOperations, "requests", classBOverage, "$0.36/1M requests"),
                               MetricInline("Storage", storageGB, R2_LIMITS.storageGB, "GB", storageOverage, "$0.015/GB-month")>>,
                             totalOverageCost |-> Add(Add(classAOverage, classBOverage), storageOverage)])

fetchWorkersUsageInline(data) ==
  LET invocations == GroupsInline(data, "workersInvocationsAdaptive")
  IN IF invocations.threw THEN invocations
     ELSE LET totals == WorkersTotals(invocations.value)
          IN IF totals.threw THEN totals
             ELSE LET totalRequests == totals.totalRequests
                      totalCpuMs == UsToMs(totals.totalCpuUs)
                      requestsOverage == calculateOverage(totalRequests, WORKERS_PAID_LIMITS.requestsPerMonth, WORKERS_PAID_LIMITS.requestOveragePer1M)
                      cpuOverage == calculateOverage(totalCpuMs, WORKERS_PAID_LIMITS.cpuMsPerMonth, WORKERS_PAID_LIMITS.cpuOveragePer1M)
                  IN Return([product |-> "Workers",
                             metrics |-> <<
                               MetricInline("Requests", totalRequests, WORKERS_PAID_LIMITS.requestsPerMonth, "requests", requestsOverage, "$0.30/1M requests"),
                               MetricInline("CPU Time (est.)", totalCpuMs, WORKERS_PAID_LIMITS.cpuMsPerMonth, "ms", cpuOverage, "$0.02/1M ms")>>,
                             totalOverageCost |-> Add(requestsOverage, cpuOverage)])

fetchKVUsageInline(opsData, storageData) ==
  LET operations == GroupsInline(opsData, "kvOperationsAdaptiveGroups")
      storage == GroupsInline(storageData, "kvStorageAdaptiveGroups")
  IN IF operations.threw THEN operations
     ELSE IF storage.threw THEN storage
     ELSE LET totals == KVTotals(operations.value)
              storageBytes == FirstProp(storage.value, "max", "byteCount")
          IN IF totals.threw THEN totals
             ELSE IF storageBytes = TypeErr THEN TypeError("byteCount")
             ELSE LET reads == totals.reads
                      writes == totals.writes
                      deletes == totals.deletes
                      lists == totals.lists
                      storageGB == GBInline(storageBytes)
                      readsOverage == calculateOverage(reads, KV_PAID_LIMITS.readsPerMonth, KV_PAID_LIMITS.readOveragePer1M)
                      writesOverage == calculateOverage(writes, KV_PAID_LIMITS.writesPerMonth, KV_PAID_LIMITS.writeOveragePer1M)
                      deletesOverage == calculateOverage(deletes, KV_PAID_LIMITS.deletesPerMonth, KV_PAID_LIMITS.deleteOveragePer1M)
                      listsOverage == calculateOverage(lists, KV_PAID_LIMITS.listsPerMonth, KV_PAID_LIMITS.listOveragePer1M)
                      storageOverage == calculateStorageOverage(storageGB, KV_PAID_LIMITS.storageGB, KV_PAID_LIMITS.storagePerGB)
                  IN Return([product |-> "Workers KV",
                             metrics |-> <<
                               MetricInline("Reads", reads, KV_PAID_LIMITS.readsPerMonth, "requests", readsOverage, "$0.50/1M reads"),
                               MetricInline("Writes", writes, KV_PAID_LIMITS.writesPerMonth, "requests", writesOverage, "$5.00/1M writes"),
                               MetricInline("Deletes", deletes, KV_PAID_LIMITS.deletesPerMonth, "requests", deletesOverage, "$5.00/1M deletes"),
                               MetricInline("Lists", lists, KV_PAID_LIMITS.listsPerMonth, "requests", listsOverage, "$5.00/1M lists"),
                               MetricInline("Storage", storageGB, KV_PAID_LIMITS.storageGB, "GB", storageOverage, "$0.50/GB-month")>>,
                             totalOverageCost |->
                               Add(Add(Add(Add(readsOverage, writesOverage), deletesOverage), listsOverage), storageOverage)])

fetchD1UsageInline(analyticsData, storageData) ==
  LET analytics == GroupsInline(analyticsData, "d1AnalyticsAdaptiveGroups")
      storage == GroupsInline(storageData, "d1StorageAdaptiveGroups")
  IN IF analytics.threw THEN analytics
     ELSE IF storage.threw THEN storage
     ELSE LET totalRowsRead == AddAllInline(analytics.value, "sum", "rowsRead")
              totalRowsWritten == AddAllInline(analytics.value, "sum", "rowsWritten")
              totalStorageBytes == AddAllInline(storage.value, "max", "databaseSizeBytes")
          IN IF totalRowsRead = TypeErr THEN TypeError("rowsRead")
             ELSE IF totalStorageBytes = TypeErr THEN TypeError("databaseSizeBytes")
             ELSE LET storageGB == GBInline(totalStorageBytes)
                      rowsReadOverage == calculateOverage(totalRowsRead, D1_LIMITS.rowsReadPerMonth, D1_LIMITS.rowsReadOveragePer1M)
                      rowsWrittenOverage == calculateOverage(totalRowsWritten, D1_LIMITS.rowsWrittenPerMonth, D1_LIMITS.rowsWrittenOveragePer1M)
                      storageOverage == calculateStorageOverage(storageGB, D1_LIMITS.storageGB, D1_LIMITS.storageOveragePerGB)
                  IN Return([product |-> "D1 Database",
                             metrics |-> <<
                               MetricInline("Rows Read", totalRowsRead, D1_LIMITS.rowsReadPerMonth, "rows", rowsReadOverage, "$0.001/1M rows"),
                               MetricInline("Rows Written", totalRowsWritten, D1_LIMITS.rowsWrittenPerMonth, "rows", rowsWrittenOverage, "$1.00/1M rows"),
                               MetricInline("Storage", storageGB, D1_LIMITS.storageGB, "GB", storageOverage, "$0.75/GB-month")>>,
                             totalOverageCost |-> Add(Add(rowsReadOverage, rowsWrittenOverage), storageOverage)])

fetchImagesUsageInline(data) ==
  LET images == GroupsInline(data, "imagesRequestsAdaptiveGroups")
  IN IF images.threw THEN images
     ELSE LET totalRequests == AddAllOrZeroInline(images.value, "sum", "requests")
          IN IF totalRequests = TypeErr THEN TypeError("requests")
             ELSE LET deliveredCost == MulDiv(totalRequests, IMAGES_LIMITS.deliveredPer100K, Per100K)
                  IN Return([product |-> "Images",
                             metrics |-> <<
                               [name |-> "Requests", current |-> totalRequests, limit |-> 0,
                                unit |-> "requests", percentage |-> Ratio(0, 1),
                                overageCost |-> deliveredCost, rate |-> "$1.00/100K requests"]>>,
                             totalOverageCost |-> deliveredCost])

fetchWorkersAIUsageInline(data, clock) ==
  LET aiData == GroupsInline(data, "aiInferenceAdaptiveGroups")
  IN IF aiData.threw THEN aiData
     ELSE LET totalNeurons == AddAllOrZeroInline(aiData.value, "sum", "totalNeurons")
          IN IF totalNeurons = TypeErr THEN TypeError("totalNeurons")
             ELSE LET monthlyFreeNeurons == WORKERS_AI_LIMITS.neuronsPerDay * daysInMonth(clock)
                      neuronOverage == MathMax(0, Sub(totalNeurons, monthlyFreeNeurons))
                      neuronCost == MulDiv(neuronOverage, WORKERS_AI_LIMITS.neuronOveragePer1K, Per1K)
                  IN Return([product |-> "Workers AI",
                             metrics |-> <<
                               MetricInline("Neurons", totalNeurons, monthlyFreeNeurons, "neurons", neuronCost, "$0.011/1K neurons")>>,
                             totalOverageCost |-> neuronCost])

fetchVectorizeUsageInline(queriesData, storageData) ==
  LET queries == GroupsInline(queriesData, "vectorizeV2QueriesAdaptiveGroups")
      storage == GroupsInline(storageData, "vectorizeV2StorageAdaptiveGroups")
  IN IF queries.threw THEN queries
     ELSE IF storage.threw THEN storage
     ELSE LET queriedDimensions == AddAllOrZeroInline(queries.value, "sum", "queriedVectorDimensions")
              storedDimensions == AddAllOrZeroInline(storage.value, "max", "storedVectorDimensions")
          IN IF queriedDimensions = TypeErr THEN TypeError("queriedVectorDimensions")
             ELSE IF storedDimensions = TypeErr THEN TypeError("storedVectorDimensions")
             ELSE LET queriedOverage == calculateOverage(queriedDimensions, VECTORIZE_LIMITS.queriedDimensionsPerMonth, VECTORIZE_LIMITS.queriedOveragePer1M)
                      storedOverage == calculateOverage(storedDimensions, VECTORIZE_LIMITS.storedDimensionsPerMonth, VECTORIZE_LIMITS.storedOveragePer1M)
                  IN Return([product |-> "Vectorize",
                             metrics |-> <<
                               MetricInline("Queried Dimensions", queriedDimensions, VECTORIZE_LIMITS.queriedDimensionsPerMonth, "dimensions", queriedOverage, "$0.01/1M dimensions"),
                               MetricInline("Stored Dimensions", storedDimensions, VECTORIZE_LIMITS.storedDimensionsPerMonth, "dimensions", storedOverage, "$0.05/1M dim-month")>>,
                             totalOverageCost |-> Add(queriedOverage, storedOverage)])

\* the body of part_001's $fetchXUsage after its awaits
AggregateInline(p, g, clock) ==
  CASE p = "r2" -> fetchR2UsageInline(g["r2OperationsAdaptiveGroups"], g["r2StorageAdaptiveGroups"])
    [] p = "workers" -> fetchWorkersUsageInline(g["workersInvocationsAdaptive"])
    [] p = "kv" -> fetchKVUsageInline(g["kvOperationsAdaptiveGroups"], g["kvStorageAdaptiveGroups"])
    [] p = "d1" -> fetchD1UsageInline(g["d1AnalyticsAdaptiveGroups"], g["d1StorageAdaptiveGroups"])
    [] p = "images" -> fetchImagesUsageInline(g["imagesRequestsAdaptiveGroups"])
    [] p = "ai" -> fetchWorkersAIUsageInline(g["aiInferenceAdaptiveGroups"], clock)
    [] p = "vectorize" -> fetchVectorizeUsageInline(g["vectorizeV2QueriesAdaptiveGroups"], g["vectorizeV2StorageAdaptiveGroups"])

-----------------------------------------------------------------------------
(* Both engines on the same configuration, clock and upstream answers: the *)
(* $fetchAllUsage of api.ts runs first, then the one of part_001.  The     *)
(* fetches of both runs settle in the same order, call.order, so that the  *)
(* two summaries differ only where the engines do.                         *)

\* the queries in the order of the aggregators' fetchGraphQL calls
Declared ==
  <<"r2OperationsAdaptiveGroups", "r2StorageAdaptiveGroups", "workersInvocationsAdaptive",
    "kvOperationsAdaptiveGroups", "kvStorageAdaptiveGroups",
    "d1AnalyticsAdaptiveGroups", "d1StorageAdaptiveGroups",
    "imagesRequestsAdaptiveGroups", "aiInferenceAdaptiveGroups",
    "vectorizeV2QueriesAdaptiveGroups", "vectorizeV2StorageAdaptiveGroups">>

\* the orders in which the upstream settles the fetches: as issued, or reversed
SettleOrders == {Declared, [i \in 1..Len(Declared) |-> Declared[Len(Declared) + 1 - i]]}

\* a D1 database whose analytics group lacks rowsWritten
D1GroupWithoutWrites == [dimensions |-> [databaseId |-> "db1"], sum |-> [rowsRead |-> 10]]

\* the answers of the upstream during both runs
AnswersToBoth ==
  UpstreamAnswers \cup
  {[Answers({}) EXCEPT !["d1AnalyticsAdaptiveGroups"] =
      Ok("d1AnalyticsAdaptiveGroups", <<D1Group("db1", 10, 600000), D1GroupWithoutWrites>>)],
   [Answers({}) EXCEPT !["d1StorageAdaptiveGroups"] =
      Ok("d1StorageAdaptiveGroups", <<D1StorageGroup("db1", 4096), [max |-> EmptyObject]>>)],
   [Answers({"aiInferenceAdaptiveGroups"}) EXCEPT
      !["imagesRequestsAdaptiveGroups"] = Http(TRUE, "200", "{}", EmptyObject),
      !["kvStorageAdaptiveGroups"] = Http(TRUE, "200", "{...}", [data |-> [viewer |-> [accounts |-> <<>>]]]),
      !["vectorizeV2QueriesAdaptiveGroups"] =
        Ok("vectorizeV2QueriesAdaptiveGroups", <<[sum |-> EmptyObject], SumGroup("queriedVectorDimensions", 400000)>>)]}

InitBoth ==
  /\ call \in {[fn |-> "fetchAllUsage", upstream |-> u, round |-> 1, order |-> o] :
                 u \in AnswersToBoth, o \in SettleOrders}
  /\ env \in Envs
  /\ now \in Clocks
  /\ IdleFanOut

\* q is the first of the fetches in flight in the order of the upstream
NextInOrder(q) ==
  \E i \in 1..Len(call.order) :
    /\ call.order[i] = q
    /\ query[q] = "inflight"
    /\ \A j \in 1..(i - 1) : query[call.order[j]] # "inflight"

\* the catch handlers of aggregators that rejected before any fetch run in
\* the order of the Promise.all list
CaptureInOrder(p) ==
  /\ \E i \in 1..Len(Products) :
       /\ Products[i] = p
       /\ \A j \in 1..(i - 1) : promise[Products[j]].st # "rejected"
  /\ Capture(p)

\* a fetch of api.ts's run settles
FetchSettleInOrder(q) ==
  /\ call.round = 1
  /\ NextInOrder(q)
  /\ FetchSettleAsBefore(q)

\* part_001: the credentials check that opens $fetchAllUsage
fetchAllUsageConfiguredInline(e) ==
  IF Falsy(e.CLOUDFLARE_ACCOUNT_ID) \/ Falsy(e.CLOUDFLARE_API_TOKEN)
  THEN Throw(<<"Missing CLOUDFLARE_ACCOUNT_ID or CLOUDFLARE_API_TOKEN in .dev.vars">>)
  ELSE Return(TRUE)

\* part_001: the promise of p's aggregator after its synchronous part, the
\* check of env.CLOUDFLARE_ACCOUNT_ID and the credentials check of fetchGraphQL
StartedInline(p, e) ==
  IF Falsy(e.CLOUDFLARE_ACCOUNT_ID) THEN [st |-> "rejected", reason |-> <<"Missing CLOUDFLARE_ACCOUNT_ID">>]
  ELSE IF fetchGraphQLConfigured(e).threw
  THEN [st |-> "rejected", reason |-> fetchGraphQLConfigured(e).message]
  ELSE [st |-> "pending"]

\* part_001's $fetchAllUsage is called once api.ts's has ended, under the same
\* configuration and clock; the outcome of api.ts's run is kept in call.before
InvokeInline ==
  /\ call.fn = "fetchAllUsage"
  /\ call.round = 1
  /\ "order" \in DOMAIN call
  /\ pc \in {"returned", "raised"}
  /\ call' = [fn |-> "fetchAllUsage", upstream |-> call.upstream, round |-> 2,
              order |-> call.order, before |-> outcome]
  /\ errors' = <<>>
  /\ slot' = [p \in ProductSet |-> Null]
  /\ got' = [q \in Queries |-> NoResponse]
  /\ IF fetchAllUsageConfiguredInline(env).threw
     THEN /\ pc' = "raised"
          /\ outcome' = [kind |-> "raised", message |-> fetchAllUsageConfiguredInline(env).message]
          /\ promise' = [p \in ProductSet |-> [st |-> "none"]]
          /\ query' = [q \in Queries |-> "idle"]
          /\ issued' = [q \in Queries |-> 0]
     ELSE /\ pc' = "awaiting"
          /\ promise' = [p \in ProductSet |-> StartedInline(p, env)]
          /\ query' = [q \in Queries |->
                         IF StartedInline(ProductOf(q), env).st = "pending" THEN "inflight" ELSE "refused"]
          /\ issued' = [q \in Queries |->
                          IF StartedInline(ProductOf(q), env).st = "pending" THEN 1 ELSE 0]
          /\ outcome' = NoOutcome
  /\ UNCHANGED <<env, now>>

\* part_001: fetch() for q settles with the answer of the upstream; fetchGraphQL
\* ends, and with it the aggregator of q when it holds all of its responses
FetchSettleInline(q) ==
  LET p == ProductOf(q)
      r == fetchGraphQL(call.upstream[q])
  IN /\ call.fn = "fetchAllUsage"
     /\ call.round = 2
     /\ "order" \in DOMAIN call
     /\ NextInOrder(q)
     /\ pc \in {"awaiting", "returned"}
     /\ promise[p].st = "pending"
     /\ IF r.threw
        THEN /\ Captured(p, r.message)
             /\ got' = Cleared(p, got)
             /\ query' = Closed(p)
        ELSE IF ~Complete(p, Arrived(p, q, r.value))
        THEN /\ got' = Arrived(p, q, r.value)
             /\ query' = [query EXCEPT ![q] = "arrived"]
             /\ UNCHANGED <<slot, errors, promise>>
        ELSE LET usage == AggregateInline(p, Arrived(p, q, r.value), now)
             IN /\ got' = Cleared(p, got)
                /\ query' = Closed(p)
                /\ IF usage.threw
                   THEN Captured(p, usage.message)
                   ELSE /\ slot' = [slot EXCEPT ![p] = usage.value]
                        /\ promise' = [promise EXCEPT ![p] = [st |-> "fulfilled"]]
                        /\ errors' = errors
     /\ UNCHANGED <<call, env, now, pc, issued, outcome>>

NextBoth ==
  \/ Invoke
  \/ \E p \in ProductSet : CaptureInOrder(p)
  \/ \E q \in Queries : FetchSettleInOrder(q)
  \/ ReturnSummary
  \/ InvokeInline
  \/ \E q \in Queries : FetchSettleInline(q)

SpecBoth == InitBoth /\ [][NextBoth]_vars

\* both runs have ended
BothEnded == call.fn = "fetchAllUsage" /\ call.round = 2 /\ pc \in {"returned", "raised"}

\* the two outcomes are the same to a caller: both raised, or both returned
\* summaries with the same slots, errors and total
SameOutcome(a, b) ==
  \/ a.kind = "raised" /\ b.kind = "raised"
  \/ /\ a.kind = "summary" /\ b.kind = "summary"
     /\ \A p \in ProductSet : a.value[p] = b.value[p]
     /\ a.value.errors = b.value.errors
     /\ a.value.totalEstimatedCost = b.value.totalEstimatedCost

\* every group the upstream answers for the D1 queries carries its number
D1GroupsComplete ==
  \A q \in QuerySetOf("d1") :
    LET r == fetchGraphQL(call.upstream[q])
        groups == IF r.threw THEN Return(<<>>) ELSE GroupsInline(r.value, q)
    IN groups.threw \/
       \A i \in 1..Len(groups.value) :
         IF q = "d1AnalyticsAdaptiveGroups"
         THEN /\ IsNumber(Prop(groups.value[i], "sum", "rowsRead"))
              /\ IsNumber(Prop(groups.value[i], "sum", "rowsWritten"))
         ELSE IsNumber(Prop(groups.value[i], "max", "databaseSizeBytes"))

C28_TokenMissing ==
  /\ BothEnded
  /\ call.before.kind = "summary"
  /\ Len(call.before.value.errors) = 7
  /\ outcome.kind = "raised"

\* a D1 group without rowsWritten counts as 0 rows in api.ts and makes the
\* metric NaN in part_001
C28_MissingRowsWritten ==
  /\ BothEnded
  /\ call.before.kind = "summary" /\ outcome.kind = "summary"
  /\ call.before.value.d1 # Null /\ outcome.value.d1 # Null
  /\ IsNumber(call.before.value.d1.metrics[2].current)
  /\ outcome.value.d1.metrics[2].current = NaN
  /\ outcome.value.totalEstimatedCost = NaN

-----------------------------------------------------------------------------
(* components/cost-summary.tsx: what the CostSummary card shows of a       *)
(* summary.  Amounts are shown in whole cents.                             *)

CentScale == DollarScale \div 100

\* Intl.NumberFormat("en-US", { style: "currency", currency: "USD" }).format:
\* the amount rounded to cents, halves away from zero
formatCurrency(amount) ==
  IF ~IsNumber(amount) THEN NaN
  ELSE IF amount >= 0 THEN (amount + CentScale \div 2) \div CentScale
  ELSE 0 - ((CentScale \div 2 - amount) \div CentScale)

\* x?.totalOverageCost ?? 0
OverageOrZero(usage) == IF IsNull(usage) THEN 0 ELSE usage.totalOverageCost

\* the amounts computed and the lines rendered by CostSummary({ data }); a
\* line that is not rendered is Null
CostSummary(data) ==
  LET baseCost == WORKERS_PAID_LIMITS.baseCost
      r2Overage == OverageOrZero(data.r2)
      workersOverage == OverageOrZero(data.workers)
      kvOverage == OverageOrZero(data.kv)
      totalOverage == Add(Add(r2Overage, workersOverage), kvOverage)
      line(amount) == IF Positive(amount) THEN [text |-> formatCurrency(amount)] ELSE Null
  IN [totalOverage |-> totalOverage,
      plan |-> [text |-> formatCurrency(baseCost)],
      r2 |-> line(r2Overage),
      workers |-> line(workersOverage),
      kv |-> line(kvOverage),
      total |-> [text |-> formatCurrency(data.totalEstimatedCost)],
      includes |-> line(totalOverage)]

\* C29: for every summary of fetchAllUsage the overage amount of the line
\* "Includes ... in overage charges" of CostSummary is totalEstimatedCost minus
\* the base plan cost, and the line shows the displayed total minus the
\* displayed plan cost.
C29_ShownOverageIsTotalMinusBase ==
  (outcome.kind = "summary" /\ CostSummary(outcome.value).includes # Null) =>
    LET card == CostSummary(outcome.value)
    IN /\ card.totalOverage = Sub(outcome.value.totalEstimatedCost, WORKERS_PAID_LIMITS.baseCost)
       /\ card.includes.text = Sub(card.total.text, card.plan.text)

\* a summary with R2, Workers and Images usage: the Images cost of $1.00 is
\* part of the displayed total and not of the displayed overage
C29_OverageLineOmitsImages ==
  /\ outcome.kind = "summary"
  /\ outcome.value.r2 # Null /\ outcome.value.workers # Null /\ outcome.value.images # Null
  /\ outcome.value.images.totalOverageCost = DollarScale
  /\ Positive(outcome.value.r2.totalOverageCost)
  /\ CostSummary(outcome.value).includes # Null
  /\ Sub(CostSummary(outcome.value).total.text, CostSummary(outcome.value).plan.text)
       >= CostSummary(outcome.value).includes.text + 100

-----------------------------------------------------------------------------
(* The dashboard (unnamed/part_000) over a summary.                        *)

\* the condition under which "No usage data available for this billing
\* period." is rendered
NoUsageMessage(data) ==
  /\ \A p \in ProductSet : IsNull(data[p])
  /\ Len(data.errors) = 0

\* C30: in every summary of fetchAllUsage a product slot is null only if
\* errors holds an entry for the service of that product, so the dashboard
\* never renders "No usage data available" (all seven slots null and errors
\* empty).
C30_NullSlotHasItsError ==
  outcome.kind = "summary" =>
    /\ \A p \in ProductSet :
         IsNull(outcome.value[p]) =>
           \E i \in 1..Len(outcome.value.errors) :
             outcome.value.errors[i].service = ServiceName[p]
    /\ ~NoUsageMessage(outcome.value)

\* every fetch failed with the credentials configured: the seven slots are
\* null, errors names the seven services, the message is not rendered
C30_Witness ==
  /\ outcome.kind = "summary"
  /\ ~Falsy(env.CLOUDFLARE_API_TOKEN)
  /\ \A p \in ProductSet : IsNull(outcome.value[p])
  /\ {outcome.value.errors[i].service : i \in 1..Len(outcome.value.errors)}
       = {ServiceName[p] : p \in ProductSet}
  /\ ~NoUsageMessage(outcome.value)

=============================================================================
